---- MODULE Spec2Model ----
(***************************************************************************)
(* The per-worker stream manager of the streaming runtime                  *)
(* (src/stream/src/task/stream_manager.rs): actor directory, pending actor *)
(* descriptors, handle table, channel registry, barrier broadcast and      *)
(* collection.                                                             *)
(***************************************************************************)
EXTENDS Integers, Sequences, FiniteSets, TLC

\* ------------------------------------------------------------------ bounds

\* Longest list of descriptors or actor ids handed to one control call.
MaxBatch == 2
\* Longest list of entries in one actor-info broadcast.
MaxInfo == 1
\* The actors of the topology pushes: the pipeline 0 -> 1 -> 2, 0 the mock source.
ActorIds == {1, 2}

\* ----------------------------------------------------------------- helpers

Put(f, k, v) == [x \in DOMAIN f \cup {k} |-> IF x = k THEN v ELSE f[x]]

Del(f, k) == [x \in DOMAIN f \ {k} |-> f[x]]

EmptyMap == [x \in {} |-> 0]

Range(s) == {s[i] : i \in DOMAIN s}

SeqsUpTo(S, n) == UNION {[1..k -> S] : k \in 0..n}

\* ------------------------------------------------------------------- state

VARIABLES
    handles,      \* LocalStreamManagerCore.handles: the actor ids holding a task handle
    actor_infos,  \* LocalStreamManagerCore.actor_infos: actor id -> host
    actors,       \* LocalStreamManagerCore.actors: pending descriptors
    mock_source,  \* LocalStreamManagerCore.mock_source: [tx, rx] present?
    channels,     \* SharedContext channel map: <<up, down>> -> [tx, rx] present?
    taken,        \* halves handed out since registration: set of <<key, "tx"|"rx">>
    dropped,      \* actor ids dropped and not registered by update_actors since
    last,         \* the last control call: [op, arg, r, recreated, replaced, agreed, aborted]
    barrier_manager, \* the barrier coordinator: [senders, pending]
    issued,       \* epoch -> [send_to, collect_from] of the send_barrier call
    observed,     \* <<actor id, epoch>>: the actor has reported the barrier
    next_epoch,   \* the epoch of the next barrier
    queue,        \* channel <<up, down>> -> the messages in flight
    sent,         \* channel -> every message sent on it, in order
    rcvd,         \* channel -> every message received from it, in order
    source,       \* source actor -> [chunks, epoch]: chunks produced, last barrier passed
    merge,        \* the merging actor: [blocked, status, emitted]
    tasks,        \* spawned actor task -> "running" | "terminated" (run() has returned)
    calls,        \* epoch -> the send_and_collect_barrier call of that barrier, with the locks it holds
    stop,         \* the stop_all_actors call: [pc, to_send, to_collect, epoch, held]
    called,       \* the once-per-lifecycle control calls made so far
    dispatch,     \* the DispatchExecutor of the running actor: its dispatchers
    wired,        \* the dispatcher descriptors that actor was built from
    fed,          \* what the actor's executor gave the DispatchExecutor: [chunk, barriers]
    outbox,       \* downstream actor -> what its output delivered: [chunk, barriers]
    routes,       \* <<partition key, downstream actor>> of every row hash-dispatched
    executors,    \* the HashAggExecutor instances built: [K, key_indices, schema, vnodes, chosen, chunks]
    agg_last      \* the last new_boxed_executor call: [params, r]

ctl_vars == <<handles, actor_infos, actors, mock_source, channels, taken, dropped, last>>

flow_vars == <<barrier_manager, issued, observed, next_epoch, queue, sent, rcvd, source, merge>>

call_vars == <<tasks, calls, stop, called>>

disp_vars == <<dispatch, wired, fed, outbox, routes>>

agg_vars == <<executors, agg_last>>

vars == <<ctl_vars, flow_vars, call_vars, disp_vars, agg_vars>>

\* The locks (the core's, the barrier manager's) whose guards are alive in a
\* control call that is suspended at an await.
LocksHeld == UNION {calls[e].held : e \in DOMAIN calls} \cup stop.held

\* The worker's own address, SharedContext.addr.
LocalAddr == "local"

Hosts == {"local", "remote"}

\* Barriers sent over a run.
MaxEpoch == 2
\* Chunks the source actors produce over a run, all together.
MaxChunk == 2
\* LOCAL_OUTPUT_CHANNEL_SIZE, scaled down.
ChannelSize == 1

\* ActorInfo { actor_id, host }; host "none" is the absent host.
ActorInfo(id, host) == [actor_id |-> id, host |-> host]

\* --------------------------------------------------------------- topology

\* stream_plan::StreamNode { node_body, input }; upstream_actor_id is the
\* MergeNode's list.
Node(body, ups, input) == [body |-> body, upstream_actor_id |-> ups, input |-> input]

MergeNode(ups) == Node("Merge", ups, <<>>)

ChainNode(first) == Node("Chain", <<>>, <<first, Node("BatchPlan", <<>>, <<>>)>>)

\* ActorMapping { original_indices, data }: the compressed hash mapping.
ActorMapping(original_indices, data) == [original_indices |-> original_indices, data |-> data]

\* stream_plan::Dispatcher { type, downstream_actor_id, column_indices,
\* hash_mapping }, the last two used by the Hash type alone.
HashDispatcher(downs, column_indices, hash_mapping) ==
    [type |-> "Hash", downstream_actor_id |-> downs, column_indices |-> column_indices,
     hash_mapping |-> hash_mapping]

Dispatcher(type, downs) ==
    [type |-> type, downstream_actor_id |-> downs, column_indices |-> <<>>,
     hash_mapping |-> ActorMapping(<<>>, <<>>)]

\* stream_plan::StreamActor { actor_id, nodes, dispatcher, upstream_actor_id }.
StreamActor(id, nodes, disp, ups) ==
    [actor_id |-> id, nodes |-> nodes, dispatcher |-> disp, upstream_actor_id |-> ups]

\* Actor i of the pipeline: it merges from i-1 (actor 1 from the mock source)
\* and dispatches to i+1, the last actor to nobody.
Pipeline(i) ==
    StreamActor(i,
                MergeNode(<<i - 1>>),
                IF i + 1 \in ActorIds THEN <<Dispatcher("Simple", <<i + 1>>)>> ELSE <<>>,
                IF i - 1 \in ActorIds THEN <<i - 1>> ELSE <<>>)

\* Actor 2 attached to the existing actor 1 through a chain node.
ChainActor == StreamActor(2, ChainNode(MergeNode(<<1>>)), <<>>, <<>>)

\* The descriptors a topology push is drawn from.
ActorCatalog == {Pipeline(i) : i \in ActorIds} \cup {ChainActor}

\* Option<ActorInfo> of a HangingChannel side.
NoInfo == [some |-> FALSE, actor_id |-> 0, host |-> "none"]

SomeInfo(id, host) == [some |-> TRUE, actor_id |-> id, host |-> host]

\* stream_service::HangingChannel { upstream, downstream }.
HangingChannel(up, down) == [upstream |-> up, downstream |-> down]

HangingCatalog ==
    { HangingChannel(SomeInfo(1, "remote"), SomeInfo(2, "none")),
      HangingChannel(SomeInfo(1, "none"), SomeInfo(2, "remote")),
      HangingChannel(SomeInfo(1, "none"), SomeInfo(2, "none")),
      HangingChannel(SomeInfo(1, "remote"), SomeInfo(2, "remote")),
      HangingChannel(NoInfo, SomeInfo(2, "none")) }

\* ------------------------------------------------------- the core, as a value

\* The mutable core the operations below transform. During a call `recreated`
\* collects the keys for which a channel pair was created while the registry
\* held an entry, `replaced` the actor ids whose task handle was replaced, and
\* `agreed` the actor ids broadcast again with the location they had, and
\* `aborted` the actor ids whose task was aborted through its handle,
\* `registered` the actor ids whose source registered a barrier sender,
\* `named` the actor id the message of a chain-upstream error names, and
\* `built` the actor ids whose task was spawned, in the order of the spawns.
Core ==
    [handles |-> handles, actor_infos |-> actor_infos, actors |-> actors,
     mock_source |-> mock_source, channels |-> channels, taken |-> taken,
     dropped |-> dropped, recreated |-> {}, replaced |-> {}, agreed |-> {},
     aborted |-> {}, registered |-> {}, named |-> {}, built |-> <<>>]

\* A Result: the core after the call and "ok", an error name, or "panic".
R(c, r) == [c |-> c, r |-> r]

\* ------------------------------------------------------- channel registry

\* channel(LOCAL_OUTPUT_CHANNEL_SIZE): a fresh pair, both halves present.
NewPair == [tx |-> TRUE, rx |-> TRUE]

\* SharedContext::add_channel_pairs: inserts a new pair, or fills in the missing
\* halves of an entry already there.
add_channel_pairs(c, ids, pair) ==
    IF ids \in DOMAIN c.channels
    THEN [c EXCEPT !.channels[ids] = [tx |-> @.tx \/ pair.tx, rx |-> @.rx \/ pair.rx],
                   !.recreated = @ \cup {ids}]
    ELSE [c EXCEPT !.channels = Put(@, ids, pair)]

\* SharedContext::take_sender.
take_sender(c, ids) ==
    IF ids \in DOMAIN c.channels /\ c.channels[ids].tx
    THEN R([c EXCEPT !.channels[ids].tx = FALSE, !.taken = @ \cup {<<ids, "tx">>}], "ok")
    ELSE R(c, "NotFound")

\* SharedContext::take_receiver.
ctx_take_receiver(c, ids) ==
    IF ids \in DOMAIN c.channels /\ c.channels[ids].rx
    THEN R([c EXCEPT !.channels[ids].rx = FALSE, !.taken = @ \cup {<<ids, "rx">>}], "ok")
    ELSE R(c, "NotFound")

\* SharedContext::retain(|&(up_id, _)| up_id != actor_id).
retain_not_upstream(c, actor_id) ==
    [c EXCEPT !.channels = [k \in {x \in DOMAIN @ : x[1] # actor_id} |-> @[k]],
              !.taken = {t \in @ : t[1][1] # actor_id}]

\* LocalStreamManager::take_receiver.
take_receiver(c, ids) == ctx_take_receiver(c, ids)

\* update_upstreams: one fresh pair per id, added to the registry.
RECURSIVE update_upstreams(_, _)
update_upstreams(c, ids) ==
    IF ids = <<>> THEN c
    ELSE update_upstreams(add_channel_pairs(c, Head(ids), NewPair), Tail(ids))

\* ----------------------------------------------------------- graph builder

\* LocalStreamManagerCore::get_actor_info(id)?.get_host()?: "ok" or the error.
host_of(c, id) ==
    IF id \notin DOMAIN c.actor_infos THEN "actor_not_found"
    ELSE IF c.actor_infos[id] = "none" THEN "no_host"
    ELSE "ok"

\* The closure of get_receive_message, mapped over the upstreams; collect()
\* stops at the first error and keeps what the earlier upstreams took.
RECURSIVE receive_each(_, _, _)
receive_each(c, actor_id, ups) ==
    IF ups = <<>> THEN R(c, "ok")
    ELSE LET up_id == Head(ups) IN
         IF up_id = 0
         THEN IF c.mock_source.rx
              THEN receive_each([c EXCEPT !.mock_source.rx = FALSE], actor_id, Tail(ups))
              ELSE R(c, "panic")
         ELSE IF host_of(c, up_id) # "ok" THEN R(c, host_of(c, up_id))
         ELSE LET s == IF c.actor_infos[up_id] # LocalAddr
                       THEN take_sender(c, <<up_id, actor_id>>)
                       ELSE R(c, "ok")
              IN IF s.r # "ok" THEN s
                 ELSE LET t == ctx_take_receiver(s.c, <<up_id, actor_id>>)
                      IN IF t.r # "ok" THEN t
                         ELSE receive_each(t.c, actor_id, Tail(ups))

\* get_receive_message stopping after the first upstream.
get_receive_message_first_only(c, actor_id, upstreams) ==
    IF upstreams = <<>> THEN R(c, "panic") ELSE receive_each(c, actor_id, <<Head(upstreams)>>)

\* LocalStreamManagerCore::get_receive_message.
get_receive_message(c, actor_id, upstreams) ==
    IF upstreams = <<>> THEN R(c, "panic") ELSE receive_each(c, actor_id, upstreams)

\* create_executor for one node with its inputs built: a merge node takes its
\* receivers, a source node registers the barrier sender of its actor, the
\* other bodies take nothing from the core.
create_executor(c, actor_id, node) ==
    IF node.body = "Merge"
    THEN get_receive_message(c, actor_id, node.upstream_actor_id)
    ELSE IF node.body = "Source"
    THEN R([c EXCEPT !.registered = @ \cup {actor_id}], "ok")
    ELSE R(c, "ok")

\* LocalStreamManagerCore::create_nodes_inner: the inputs first, then the node.
RECURSIVE create_nodes_inner(_, _, _)
RECURSIVE create_inputs(_, _, _)
create_inputs(c, actor_id, inputs) ==
    IF inputs = <<>> THEN R(c, "ok")
    ELSE LET i == create_nodes_inner(c, actor_id, Head(inputs))
         IN IF i.r # "ok" THEN i ELSE create_inputs(i.c, actor_id, Tail(inputs))

create_nodes_inner(c, actor_id, node) ==
    LET i == create_inputs(c, actor_id, node.input)
    IN IF i.r # "ok" THEN i ELSE create_executor(i.c, actor_id, node)

\* LocalStreamManagerCore::create_nodes.
create_nodes(c, actor_id, node) == create_nodes_inner(c, actor_id, node)

\* The closure of create_dispatcher mapped over downstream_actor_id: the host
\* of the downstream, then new_output, which takes the sender of the edge.
RECURSIVE new_outputs(_, _, _)
new_outputs(c, actor_id, downs) ==
    IF downs = <<>> THEN R(c, "ok")
    ELSE LET down_id == Head(downs) IN
         IF host_of(c, down_id) # "ok" THEN R(c, host_of(c, down_id))
         ELSE LET s == take_sender(c, <<actor_id, down_id>>)
              IN IF s.r # "ok" THEN s ELSE new_outputs(s.c, actor_id, Tail(downs))

\* util::compress::decompress_data: the vector that run i fills with data[i]
\* up to and including position original_indices[i] (positions from 0).
decompress_data(original_indices, data) ==
    IF original_indices = <<>> THEN <<>>
    ELSE [v \in 1 .. original_indices[Len(original_indices)] + 1 |->
             data[CHOOSE i \in DOMAIN original_indices :
                      /\ v <= original_indices[i] + 1
                      /\ \A j \in 1 .. i - 1 : v > original_indices[j] + 1]]

\* A DispatcherImpl: Hash(HashDataDispatcher), Broadcast(BroadcastDispatcher)
\* or Simple(SimpleDispatcher), over the outputs to its downstream actors.
DispatcherImpl(kind, outputs, column_indices, hash_mapping) ==
    [kind |-> kind, outputs |-> outputs, column_indices |-> column_indices,
     hash_mapping |-> hash_mapping]

NoImpl == DispatcherImpl("none", <<>>, <<>>, <<>>)

\* As dispatcher_impl, without the assertion on the number of outputs of a
\* Simple or NoShuffle dispatcher: the first output, if any, is taken.
dispatcher_impl_unasserted(d) ==
    LET downs == d.downstream_actor_id
    IN CASE d.type = "Hash" ->
              IF downs = <<>> THEN [r |-> "panic", impl |-> NoImpl]
              ELSE [r |-> "ok",
                    impl |-> DispatcherImpl("Hash", downs, d.column_indices,
                                 decompress_data(d.hash_mapping.original_indices,
                                                 d.hash_mapping.data))]
         [] d.type = "Broadcast" ->
              [r |-> "ok", impl |-> DispatcherImpl("Broadcast", downs, <<>>, <<>>)]
         [] d.type \in {"Simple", "NoShuffle"} ->
              [r |-> "ok", impl |-> DispatcherImpl("Simple", IF downs = <<>> THEN <<>> ELSE <<Head(downs)>>,
                                            <<>>, <<>>)]
         [] OTHER -> [r |-> "panic", impl |-> NoImpl]

\* As dispatcher_impl, with a BroadcastDispatcher over the first output alone.
dispatcher_impl_broadcast_first(d) ==
    LET downs == d.downstream_actor_id
    IN CASE d.type = "Hash" ->
              IF downs = <<>> THEN [r |-> "panic", impl |-> NoImpl]
              ELSE [r |-> "ok",
                    impl |-> DispatcherImpl("Hash", downs, d.column_indices,
                                 decompress_data(d.hash_mapping.original_indices,
                                                 d.hash_mapping.data))]
         [] d.type = "Broadcast" ->
              [r |-> "ok",
               impl |-> DispatcherImpl("Broadcast",
                                       IF downs = <<>> THEN <<>> ELSE <<Head(downs)>>,
                                       <<>>, <<>>)]
         [] d.type \in {"Simple", "NoShuffle"} ->
              IF Len(downs) # 1 THEN [r |-> "panic", impl |-> NoImpl]
              ELSE [r |-> "ok", impl |-> DispatcherImpl("Simple", downs, <<>>, <<>>)]
         [] OTHER -> [r |-> "panic", impl |-> NoImpl]

\* As dispatcher_impl, with a HashDataDispatcher hashing column 1 whatever
\* columns the descriptor names.
dispatcher_impl_other_columns(d) ==
    LET downs == d.downstream_actor_id
    IN CASE d.type = "Hash" ->
              IF downs = <<>> THEN [r |-> "panic", impl |-> NoImpl]
              ELSE [r |-> "ok",
                    impl |-> DispatcherImpl("Hash", downs, <<1>>,
                                 decompress_data(d.hash_mapping.original_indices,
                                                 d.hash_mapping.data))]
         [] d.type = "Broadcast" ->
              [r |-> "ok", impl |-> DispatcherImpl("Broadcast", downs, <<>>, <<>>)]
         [] d.type \in {"Simple", "NoShuffle"} ->
              IF Len(downs) # 1 THEN [r |-> "panic", impl |-> NoImpl]
              ELSE [r |-> "ok", impl |-> DispatcherImpl("Simple", downs, <<>>, <<>>)]
         [] OTHER -> [r |-> "panic", impl |-> NoImpl]

\* The match on the dispatcher type in create_dispatcher, once the outputs to
\* the downstream actors exist: the DispatcherImpl, or the panic of the arm's
\* assertion (Hash: at least one output; Simple, NoShuffle: exactly one output;
\* Invalid: unreachable).
dispatcher_impl(d) ==
    LET downs == d.downstream_actor_id
    IN CASE d.type = "Hash" ->
              IF downs = <<>> THEN [r |-> "panic", impl |-> NoImpl]
              ELSE [r |-> "ok",
                    impl |-> DispatcherImpl("Hash", downs, d.column_indices,
                                 decompress_data(d.hash_mapping.original_indices,
                                                 d.hash_mapping.data))]
         [] d.type = "Broadcast" ->
              [r |-> "ok", impl |-> DispatcherImpl("Broadcast", downs, <<>>, <<>>)]
         [] d.type \in {"Simple", "NoShuffle"} ->
              IF Len(downs) # 1 THEN [r |-> "panic", impl |-> NoImpl]
              ELSE [r |-> "ok", impl |-> DispatcherImpl("Simple", downs, <<>>, <<>>)]
         [] OTHER -> [r |-> "panic", impl |-> NoImpl]

\* LocalStreamManagerCore::create_dispatcher.
RECURSIVE create_dispatcher(_, _, _)
create_dispatcher(c, dispatchers, actor_id) ==
    IF dispatchers = <<>> THEN R(c, "ok")
    ELSE LET d == Head(dispatchers)
             o == new_outputs(c, actor_id, d.downstream_actor_id)
         IN IF o.r # "ok" THEN o
            ELSE IF dispatcher_impl(d).r # "ok" THEN R(o.c, dispatcher_impl(d).r)
            ELSE create_dispatcher(o.c, Tail(dispatchers), actor_id)

\* The DispatchExecutor's dispatchers, as create_dispatcher returns them.
dispatcher_impls(dispatchers) ==
    [i \in DOMAIN dispatchers |-> dispatcher_impl(dispatchers[i]).impl]

\* madsim::task::spawn + handles.insert: a new task; the handle the insert
\* replaces, if any, is dropped and its task runs on detached.
spawn_actor(c, actor_id) ==
    [c EXCEPT !.handles = @ \cup {actor_id},
              !.replaced = IF actor_id \in c.handles THEN @ \cup {actor_id} ELSE @,
              !.built = Append(@, actor_id)]

\* One round of the loop of build_actors.
build_actor(c, actor_id) ==
    IF actor_id \notin DOMAIN c.actors THEN R(c, "panic")
    ELSE LET actor == c.actors[actor_id]
             c1 == [c EXCEPT !.actors = Del(@, actor_id)]
             e == create_nodes(c1, actor_id, actor.nodes)
         IN IF e.r # "ok" THEN e
            ELSE LET d == create_dispatcher(e.c, actor.dispatcher, actor_id)
                 IN IF d.r # "ok" THEN d ELSE R(spawn_actor(d.c, actor_id), "ok")

\* build_actors going on with the rest of the list after an actor that failed.
RECURSIVE build_actors_past_errors(_, _)
build_actors_past_errors(c, ids) ==
    IF ids = <<>> THEN R(c, "ok")
    ELSE LET b == build_actor(c, Head(ids))
             rest == build_actors_past_errors(b.c, Tail(ids))
         IN IF b.r # "ok" THEN R(rest.c, b.r) ELSE rest

\* LocalStreamManagerCore::build_actors.
RECURSIVE build_actors(_, _)
build_actors(c, ids) ==
    IF ids = <<>> THEN R(c, "ok")
    ELSE LET b == build_actor(c, Head(ids))
         IN IF b.r # "ok" THEN b ELSE build_actors(b.c, Tail(ids))

\* -------------------------------------------------------- actor directory

\* update_actor_info without the comparison with the replaced entry.
RECURSIVE update_actor_info_unchecked(_, _)
update_actor_info_unchecked(c, req) ==
    IF req = <<>> THEN R(c, "ok")
    ELSE update_actor_info_unchecked(
             [c EXCEPT !.actor_infos = Put(@, Head(req).actor_id, Head(req).host)], Tail(req))

\* LocalStreamManagerCore::update_actor_info: insert, then compare with the
\* entry the insert replaced.
RECURSIVE update_actor_info(_, _)
update_actor_info(c, req) ==
    IF req = <<>> THEN R(c, "ok")
    ELSE LET actor == Head(req)
             had == actor.actor_id \in DOMAIN c.actor_infos
             c1 == [c EXCEPT !.actor_infos = Put(@, actor.actor_id, actor.host),
                             !.agreed = IF had /\ c.actor_infos[actor.actor_id] = actor.host
                                        THEN @ \cup {actor.actor_id} ELSE @]
         IN IF had /\ c.actor_infos[actor.actor_id] # actor.host
            THEN R(c1, "actor_info_mismatch")
            ELSE update_actor_info(c1, Tail(req))

\* ------------------------------------------------------------------ drops

\* drop_actor leaving the pending descriptor of the actor in place.
core_drop_actor_keeps_descriptor(c, actor_id) ==
    IF actor_id \notin c.handles THEN R(c, "panic")
    ELSE LET c1 == retain_not_upstream([c EXCEPT !.handles = @ \ {actor_id}], actor_id)
         IN R([c1 EXCEPT !.actor_infos = Del(@, actor_id),
                         !.dropped = @ \cup {actor_id},
                         !.aborted = @ \cup {actor_id}],
              "ok")

\* drop_actor leaving the channels of the actor in the registry.
core_drop_actor_keeps_channels(c, actor_id) ==
    IF actor_id \notin c.handles THEN R(c, "panic")
    ELSE R([c EXCEPT !.handles = @ \ {actor_id},
                     !.actor_infos = Del(@, actor_id),
                     !.actors = Del(@, actor_id),
                     !.dropped = @ \cup {actor_id},
                     !.aborted = @ \cup {actor_id}],
           "ok")

\* core_drop_actor purging the channels, the location entry and the descriptor
\* before it looks for the handle.
core_drop_actor_purges_first(c, actor_id) ==
    LET c1 == retain_not_upstream([c EXCEPT !.handles = @ \ {actor_id}], actor_id)
        c2 == [c1 EXCEPT !.actor_infos = Del(@, actor_id), !.actors = Del(@, actor_id)]
    IN IF actor_id \notin c.handles THEN R(c2, "panic")
       ELSE R([c2 EXCEPT !.dropped = @ \cup {actor_id}, !.aborted = @ \cup {actor_id}], "ok")

\* LocalStreamManagerCore::drop_actor: the handle is removed (a panic when there
\* is none), the channels with the actor as upstream are purged, the location
\* and the descriptor are removed, and the task is aborted.
core_drop_actor(c, actor_id) ==
    IF actor_id \notin c.handles THEN R(c, "panic")
    ELSE LET c1 == retain_not_upstream([c EXCEPT !.handles = @ \ {actor_id}], actor_id)
         IN R([c1 EXCEPT !.actor_infos = Del(@, actor_id),
                         !.actors = Del(@, actor_id),
                         !.dropped = @ \cup {actor_id},
                         !.aborted = @ \cup {actor_id}],
              "ok")

\* LocalStreamManager::drop_actor.
RECURSIVE drop_actor(_, _)
drop_actor(c, ids) ==
    IF ids = <<>> THEN R(c, "ok")
    ELSE LET d == core_drop_actor(c, Head(ids))
         IN IF d.r # "ok" THEN d ELSE drop_actor(d.c, Tail(ids))

\* LocalStreamManagerCore::remove_actor_handles: the handles of the listed
\* actors are removed one by one, up to the first that is not there.
RECURSIVE remove_actor_handles(_, _)
remove_actor_handles(c, ids) ==
    IF ids = <<>> THEN R(c, "ok")
    ELSE IF Head(ids) \notin c.handles THEN R(c, "no_such_actor")
    ELSE remove_actor_handles([c EXCEPT !.handles = @ \ {Head(ids)}], Tail(ids))

\* The loop of drop_all_actors over the drained handles `ids`.
RECURSIVE drain_handles(_, _)
drain_handles(c, ids) ==
    IF ids = {} THEN c
    ELSE LET actor_id == CHOOSE x \in ids : TRUE
             c1 == retain_not_upstream(c, actor_id)
         IN drain_handles([c1 EXCEPT !.actors = Del(@, actor_id),
                                     !.dropped = @ \cup {actor_id},
                                     !.aborted = @ \cup {actor_id}],
                          ids \ {actor_id})

\* drop_all_actors going over the handles without taking them from the table.
drop_all_actors_keeps_handles(c) ==
    LET c1 == drain_handles(c, c.handles)
    IN R([c1 EXCEPT !.actor_infos = EmptyMap], "ok")

\* LocalStreamManagerCore::drop_all_actors: every handle is drained, with the
\* channels, the descriptor and the task of its actor; the directory is cleared.
drop_all_actors(c) ==
    LET c1 == drain_handles([c EXCEPT !.handles = {}], c.handles)
    IN R([c1 EXCEPT !.actor_infos = EmptyMap], "ok")

\* ---------------------------------------------------------- update_actors

\* The merge loop of build_channel_for_chain_node without the directory lookup.
RECURSIVE chain_upstreams_unchecked(_, _, _)
chain_upstreams_unchecked(c, actor_id, ups) ==
    IF ups = <<>> THEN R(c, "ok")
    ELSE chain_upstreams_unchecked(add_channel_pairs(c, <<Head(ups), actor_id>>, NewPair),
                                   actor_id, Tail(ups))

\* The merge loop of build_channel_for_chain_node: every listed upstream is
\* looked up in the directory, then its pair is created.
RECURSIVE chain_upstreams(_, _, _)
chain_upstreams(c, actor_id, ups) ==
    IF ups = <<>> THEN R(c, "ok")
    ELSE IF Head(ups) \notin DOMAIN c.actor_infos
    THEN R([c EXCEPT !.named = {Head(ups)}], "chain_upstream_not_exists")
    ELSE chain_upstreams(add_channel_pairs(c, <<Head(ups), actor_id>>, NewPair),
                         actor_id, Tail(ups))

\* LocalStreamManagerCore::build_channel_for_chain_node.
RECURSIVE build_channel_for_chain_node(_, _, _)
RECURSIVE chain_children(_, _, _)
chain_children(c, actor_id, inputs) ==
    IF inputs = <<>> THEN R(c, "ok")
    ELSE LET b == build_channel_for_chain_node(c, actor_id, Head(inputs))
         IN IF b.r # "ok" THEN b ELSE chain_children(b.c, actor_id, Tail(inputs))

build_channel_for_chain_node(c, actor_id, stream_node) ==
    LET own == IF stream_node.body # "Chain" THEN R(c, "ok")
               ELSE IF stream_node.input = <<>> THEN R(c, "panic")
               ELSE IF stream_node.input[1].body # "Merge"
               THEN R(c, "chain_first_input_not_merge")
               ELSE chain_upstreams(c, actor_id, stream_node.input[1].upstream_actor_id)
    IN IF own.r # "ok" THEN own
       ELSE chain_children(own.c, actor_id, stream_node.input)

\* The first loop of update_actors without the test of the replaced descriptor.
RECURSIVE insert_actors_unchecked(_, _)
insert_actors_unchecked(c, new_actors) ==
    IF new_actors = <<>> THEN R(c, "ok")
    ELSE insert_actors_unchecked(
             [c EXCEPT !.actors = Put(@, Head(new_actors).actor_id, Head(new_actors)),
                       !.dropped = @ \ {Head(new_actors).actor_id}],
             Tail(new_actors))

\* The first loop of update_actors: insert, and fail on a replaced descriptor.
RECURSIVE insert_actors(_, _)
insert_actors(c, new_actors) ==
    IF new_actors = <<>> THEN R(c, "ok")
    ELSE LET actor == Head(new_actors)
             c1 == [c EXCEPT !.actors = Put(@, actor.actor_id, actor),
                             !.dropped = @ \ {actor.actor_id}]
         IN IF actor.actor_id \in DOMAIN c.actors
            THEN R(c1, "duplicated_actor")
            ELSE insert_actors(c1, Tail(new_actors))

\* dispatcher.iter().flat_map(downstream_actor_id).map((current_id, id)).
RECURSIVE down_ids(_, _)
down_ids(current_id, dispatchers) ==
    IF dispatchers = <<>> THEN <<>>
    ELSE [i \in DOMAIN Head(dispatchers).downstream_actor_id |->
              <<current_id, Head(dispatchers).downstream_actor_id[i]>>]
         \o down_ids(current_id, Tail(dispatchers))

\* The upstreams of the actor that are not among the actors of this call.
RECURSIVE up_ids(_, _, _)
up_ids(current_id, ups, local_actor_ids) ==
    IF ups = <<>> THEN <<>>
    ELSE (IF Head(ups) \notin local_actor_ids THEN <<(<<Head(ups), current_id>>)>> ELSE <<>>)
         \o up_ids(current_id, Tail(ups), local_actor_ids)

\* The second loop of update_actors, over every pending descriptor, in the
\* order `order` the hash map yields them.
RECURSIVE channels_for_actors(_, _, _)
channels_for_actors(c, order, local_actor_ids) ==
    IF order = <<>> THEN R(c, "ok")
    ELSE LET current_id == Head(order)
             actor == c.actors[current_id]
             b == build_channel_for_chain_node(c, current_id, actor.nodes)
         IN IF b.r # "ok" THEN b
            ELSE LET c2 == update_upstreams(b.c, down_ids(current_id, actor.dispatcher))
                     c3 == update_upstreams(
                               c2, up_ids(current_id, actor.upstream_actor_id, local_actor_ids))
                 IN channels_for_actors(c3, Tail(order), local_actor_ids)

\* The third loop of update_actors: the hanging channels.
RECURSIVE hanging_channels_loop(_, _)
hanging_channels_loop(c, hanging) ==
    IF hanging = <<>> THEN R(c, "ok")
    ELSE LET up == Head(hanging).upstream
             down == Head(hanging).downstream
         IN IF up.some /\ down.some /\ down.host = "none"
            THEN hanging_channels_loop(
                     add_channel_pairs(c, <<up.actor_id, down.actor_id>>, NewPair), Tail(hanging))
            ELSE IF up.some /\ down.some /\ up.host = "none"
            THEN hanging_channels_loop(
                     add_channel_pairs(c, <<up.actor_id, down.actor_id>>, NewPair), Tail(hanging))
            ELSE R(c, "hanging_channel")

\* The orders in which a hash map over the keys S can be iterated.
Orders(S) == {o \in [1..Cardinality(S) -> S] : Range(o) = S}

\* LocalStreamManagerCore::update_actors; `order` is the order in which the
\* hash map self.actors yields the pending descriptors in the second loop.
update_actors(c, new_actors, hanging, order) ==
    LET local_actor_ids == {new_actors[i].actor_id : i \in DOMAIN new_actors}
        ins == insert_actors(c, new_actors)
    IN IF ins.r # "ok" THEN ins
       ELSE LET ch == channels_for_actors(ins.c, order, local_actor_ids)
            IN IF ch.r # "ok" THEN ch ELSE hanging_channels_loop(ch.c, hanging)

\* ------------------------------------------------------ barrier coordinator

\* Barrier { epoch, mutation }; Mutation::Stop(actors), and no mutation.
Barrier(epoch, mutation) == [epoch |-> epoch, mutation |-> mutation]

NoMutation == [kind |-> "none", actors |-> {}]

StopMutation(actor_ids) == [kind |-> "stop", actors |-> actor_ids]

\* LocalBarrierManager::all_senders: the actors a barrier can be sent to.
all_senders(bm) == DOMAIN bm.senders \ bm.stopped

\* LocalBarrierManager::send_barrier: registers the pending collection of the
\* barrier's epoch and injects the barrier into the input of every actor of
\* to_send; an actor of to_send with no registered sender is a panic. The
\* actors a Stop mutation names get this barrier and none after it.
bm_send_barrier(bm, barrier, to_send, to_collect) ==
    IF ~(to_send \subseteq all_senders(bm)) THEN [bm |-> bm, r |-> "panic"]
    ELSE [bm |-> [senders |-> [a \in DOMAIN bm.senders |->
                                  IF a \in to_send
                                  THEN Append(bm.senders[a], barrier)
                                  ELSE bm.senders[a]],
                  pending |-> Put(bm.pending, barrier.epoch,
                                  [remaining |-> to_collect, resolved |-> FALSE]),
                  stopped |-> bm.stopped \cup barrier.mutation.actors],
          r |-> "ok"]

\* LocalBarrierManager::collect: the actor reports the barrier; the completion
\* handle resolves when the last actor to collect from has reported.
bm_collect(bm, actor_id, barrier) ==
    IF barrier.epoch \notin DOMAIN bm.pending THEN bm
    ELSE [bm EXCEPT !.pending[barrier.epoch] =
              [remaining |-> @.remaining \ {actor_id},
               resolved |-> @.resolved \/ (@.remaining # {} /\ @.remaining \ {actor_id} = {})]]

\* send_barrier registering the collection with the send set.
send_barrier_collect_senders(bm, barrier, actor_ids_to_send, actor_ids_to_collect) ==
    bm_send_barrier(bm, barrier, actor_ids_to_send, actor_ids_to_send)

\* LocalStreamManager::send_barrier: under the core lock and the barrier
\* manager's, hand the barrier and both sets to the barrier manager.
send_barrier(bm, barrier, actor_ids_to_send, actor_ids_to_collect) ==
    bm_send_barrier(bm, barrier, actor_ids_to_send, actor_ids_to_collect)

\* ------------------------------------------------------------- the data path

\* The actors of the running graph 1 -> 3 <- 2: two sources and a merging actor.
FlowSources == {1, 2}

FlowMerge == 3

FlowUpstreams == <<1, 2>>

FlowActors == FlowSources \cup {FlowMerge}

\* The core once the directory is broadcast and the pairs of both edges exist.
FlowCore ==
    update_upstreams(
        [handles |-> {}, actor_infos |-> [a \in FlowActors |-> LocalAddr],
         actors |-> EmptyMap, mock_source |-> NewPair, channels |-> EmptyMap,
         taken |-> {}, dropped |-> {}, recreated |-> {}, replaced |-> {}, agreed |-> {},
         aborted |-> {}, registered |-> {}, named |-> {}, built |-> <<>>],
        [i \in DOMAIN FlowUpstreams |-> <<FlowUpstreams[i], FlowMerge>>])

\* The channels whose receiver the merging actor got from get_receive_message.
MergeInputs ==
    LET res == get_receive_message(FlowCore, FlowMerge, FlowUpstreams)
    IN {t[1] : t \in {x \in res.c.taken : x[2] = "rx"}}

\* The channels whose sender the dispatcher of source a got from new_output.
SourceOutputs(a) ==
    LET res == new_outputs(FlowCore, a, <<FlowMerge>>)
    IN {t[1] : t \in {x \in res.c.taken : x[2] = "tx"}}

FlowChannels == {<<FlowUpstreams[i], FlowMerge>> : i \in DOMAIN FlowUpstreams}

\* Message::Chunk, tagged with its producer, its number and the epoch of the
\* last barrier its producer passed; Message::Barrier.
Chunk(src, n, epoch) ==
    [kind |-> "chunk", src |-> src, n |-> n, epoch |-> epoch, mutation |-> NoMutation]

\* Message::Barrier(barrier).
BarrierMsgOf(barrier) ==
    [kind |-> "barrier", src |-> 0, n |-> 0, epoch |-> barrier.epoch,
     mutation |-> barrier.mutation]

BarrierMsg(epoch) == BarrierMsgOf(Barrier(epoch, NoMutation))

\* futures mpsc channel(buffer): the buffer plus one slot for the one sender.
Capacity == ChannelSize + 1

\* Sender::send: completes when the channel has room, waits otherwise.
CanSend(q) == Len(q) < Capacity

chan_send(q, m) == Append(q, m)

\* A receiver handing out the newest message instead of the oldest.
chan_recv_newest(q) == [msg |-> q[Len(q)], rest |-> SubSeq(q, 1, Len(q) - 1)]

\* Receiver::next: the message at the head.
chan_recv(q) == [msg |-> Head(q), rest |-> Tail(q)]

\* The runtime with the actors `spawned` running and the barrier senders of
\* `registered` in place; nothing sent yet.
FlowState(registered, spawned) ==
    /\ barrier_manager = [senders |-> [a \in registered |-> <<>>], pending |-> EmptyMap,
                          stopped |-> {}]
    /\ issued = EmptyMap
    /\ observed = {}
    /\ next_epoch = 1
    /\ queue = [k \in FlowChannels |-> <<>>]
    /\ sent = [k \in FlowChannels |-> <<>>]
    /\ rcvd = [k \in FlowChannels |-> <<>>]
    /\ source = [a \in FlowSources |-> [chunks |-> 0, epoch |-> 0]]
    /\ merge = [blocked |-> [k \in MergeInputs |-> 0], status |-> "running", emitted |-> <<>>]
    /\ tasks = [a \in spawned |-> "running"]

\* The graph built and running.
FlowInit == FlowState(FlowSources, FlowActors)

\* Whether the task of actor a is in its run() loop.
Running(a) == a \in DOMAIN tasks /\ tasks[a] = "running"

\* Actor::run after the actor has dispatched and reported barrier b: it returns
\* when the barrier's Stop mutation names the actor.
after_barrier(t, a, b) ==
    IF b.mutation.kind = "stop" /\ a \in b.mutation.actors
    THEN [t EXCEPT ![a] = "terminated"]
    ELSE t

\* The <<send_to, collect_from>> a barrier is sent with: everything; one source
\* left out of send_to; collect from the merging actor alone; one source alone;
\* collect from the sources alone.
BarrierTargets ==
    { <<{1, 2}, {1, 2, 3}>>, <<{1}, {1, 2, 3}>>, <<{1, 2}, {3}>>, <<{2}, {2}>>,
      <<{1, 2}, {1, 2}>> }

\* A control-plane caller sends the next barrier (send_barrier).
SendBarrier ==
    \E target \in BarrierTargets :
        /\ next_epoch <= MaxEpoch
        /\ LET res == send_barrier(barrier_manager, Barrier(next_epoch, NoMutation),
                                   target[1], target[2])
           IN /\ res.r = "ok"
              /\ barrier_manager' = res.bm
        /\ issued' = Put(issued, next_epoch, [send_to |-> target[1], collect_from |-> target[2]])
        /\ next_epoch' = next_epoch + 1
        /\ UNCHANGED <<observed, queue, sent, rcvd, source, merge, ctl_vars, call_vars, disp_vars, agg_vars>>

\* A source actor produces a chunk and dispatches it.
SourceChunk ==
    \E a \in FlowSources :
        /\ Running(a)
        /\ source[1].chunks + source[2].chunks < MaxChunk
        /\ \A k \in SourceOutputs(a) : CanSend(queue[k])
        /\ LET m == Chunk(a, source[a].chunks + 1, source[a].epoch)
           IN /\ queue' = [k \in DOMAIN queue |->
                              IF k \in SourceOutputs(a) THEN chan_send(queue[k], m) ELSE queue[k]]
              /\ sent' = [k \in DOMAIN sent |->
                             IF k \in SourceOutputs(a) THEN Append(sent[k], m) ELSE sent[k]]
        /\ source' = [source EXCEPT ![a].chunks = @ + 1]
        /\ UNCHANGED <<barrier_manager, issued, observed, next_epoch, rcvd, merge, ctl_vars, call_vars, disp_vars, agg_vars>>

\* A source actor takes the barrier injected into its input, dispatches it to
\* all its outputs and reports it to the barrier manager.
SourceBarrier ==
    \E a \in FlowSources :
        /\ Running(a)
        /\ a \in DOMAIN barrier_manager.senders
        /\ barrier_manager.senders[a] # <<>>
        /\ "barrier_manager" \notin LocksHeld
        /\ \A k \in SourceOutputs(a) : CanSend(queue[k])
        /\ LET b == Head(barrier_manager.senders[a])
               m == BarrierMsgOf(b)
           IN /\ queue' = [k \in DOMAIN queue |->
                              IF k \in SourceOutputs(a) THEN chan_send(queue[k], m) ELSE queue[k]]
              /\ sent' = [k \in DOMAIN sent |->
                             IF k \in SourceOutputs(a) THEN Append(sent[k], m) ELSE sent[k]]
              /\ source' = [source EXCEPT ![a].epoch = b.epoch]
              /\ barrier_manager' =
                     bm_collect([barrier_manager EXCEPT !.senders[a] = Tail(@)], a, b)
              /\ observed' = observed \cup {<<a, b.epoch>>}
              /\ tasks' = after_barrier(tasks, a, b)
        /\ UNCHANGED <<issued, next_epoch, rcvd, merge, ctl_vars, calls, stop, called, disp_vars, agg_vars>>

\* The merging actor after message m arrived on input k: a chunk is emitted; a
\* barrier blocks the input until every input has delivered a barrier, then,
\* the epochs being the same, it is emitted once; differing epochs fail the actor.
merge_receive(mg, k, m) ==
    IF m.kind = "chunk" THEN [mg EXCEPT !.emitted = Append(@, m)]
    ELSE LET blocked == [mg.blocked EXCEPT ![k] = m.epoch]
         IN IF \E i \in DOMAIN blocked : blocked[i] = 0
            THEN [mg EXCEPT !.blocked = blocked]
            ELSE IF \A i \in DOMAIN blocked : blocked[i] = m.epoch
            THEN [mg EXCEPT !.blocked = [i \in DOMAIN blocked |-> 0],
                            !.emitted = Append(@, m)]
            ELSE [mg EXCEPT !.blocked = blocked, !.status = "failed"]

\* The merging actor receives from one of its inputs that is not blocked; on
\* emitting a barrier it reports it to the barrier manager.
MergeReceive ==
    \E k \in MergeInputs :
        /\ Running(FlowMerge)
        /\ merge.status = "running"
        /\ merge.blocked[k] = 0
        /\ queue[k] # <<>>
        /\ LET got == chan_recv(queue[k])
               mg == merge_receive(merge, k, got.msg)
               emits == got.msg.kind = "barrier" /\ Len(mg.emitted) > Len(merge.emitted)
           IN /\ emits => "barrier_manager" \notin LocksHeld
              /\ queue' = [queue EXCEPT ![k] = got.rest]
              /\ rcvd' = [rcvd EXCEPT ![k] = Append(@, got.msg)]
              /\ merge' = mg
              /\ barrier_manager' =
                     IF emits
                     THEN bm_collect(barrier_manager, FlowMerge,
                                     Barrier(got.msg.epoch, got.msg.mutation))
                     ELSE barrier_manager
              /\ tasks' = IF emits
                          THEN after_barrier(tasks, FlowMerge,
                                             Barrier(got.msg.epoch, got.msg.mutation))
                          ELSE tasks
              /\ observed' = IF emits THEN observed \cup {<<FlowMerge, got.msg.epoch>>}
                             ELSE observed
        /\ UNCHANGED <<issued, next_epoch, sent, source, ctl_vars, calls, stop, called, disp_vars, agg_vars>>

NextFlow ==
    \/ SendBarrier
    \/ SourceChunk
    \/ SourceBarrier
    \/ MergeReceive

\* ------------------------------------------------------------ the machine

\* LocalStreamManagerCore::with_store_and_context: empty tables, the mock
\* source channel with both halves.
CtlInit ==
    /\ handles = {}
    /\ actor_infos = EmptyMap
    /\ actors = EmptyMap
    /\ mock_source = NewPair
    /\ channels = EmptyMap
    /\ taken = {}
    /\ dropped = {}
    /\ last = [op |-> "new", arg |-> <<>>, r |-> "ok",
               recreated |-> {}, replaced |-> {}, agreed |-> {}, aborted |-> {},
               named |-> {}, built |-> <<>>]

\* No barrier call and no stop_all_actors call in progress.
CallInit ==
    /\ calls = EmptyMap
    /\ stop = [pc |-> "idle", to_send |-> {}, to_collect |-> {}, epoch |-> 0, held |-> {}]
    /\ called = {}

\* No actor dispatching.
DispInit ==
    /\ dispatch = <<>>
    /\ wired = <<>>
    /\ fed = [chunk |-> <<>>, barriers |-> <<>>]
    /\ outbox = EmptyMap
    /\ routes = {}

\* No keyed-aggregation operator has been built.
AggInit ==
    /\ executors = EmptyMap
    /\ agg_last = [params |-> [executor_id |-> 0], r |-> "none"]

Init == CtlInit /\ FlowInit /\ CallInit /\ DispInit /\ AggInit

\* The core after a call becomes the state; the call and its result are
\* recorded in `last`.
CommitCore(result, op, arg) ==
  \E res \in {result} :
    /\ "core" \notin LocksHeld
    /\ handles' = res.c.handles
    /\ actor_infos' = res.c.actor_infos
    /\ actors' = res.c.actors
    /\ mock_source' = res.c.mock_source
    /\ channels' = res.c.channels
    /\ taken' = res.c.taken
    /\ dropped' = res.c.dropped
    /\ last' = [op |-> op, arg |-> arg, r |-> res.r,
                recreated |-> res.c.recreated, replaced |-> res.c.replaced,
                agreed |-> res.c.agreed, aborted |-> res.c.aborted,
                named |-> res.c.named, built |-> res.c.built]

\* A control call that touches the core alone.
Commit(result, op, arg) ==
    /\ CommitCore(result, op, arg)
    /\ UNCHANGED <<flow_vars, call_vars, disp_vars, agg_vars>>

InfoRequests ==
    SeqsUpTo({ActorInfo(id, h) : id \in ActorIds, h \in Hosts}, MaxInfo) \ {<<>>}

IdLists == SeqsUpTo(ActorIds, MaxBatch) \ {<<>>}

ActorIdsOf(new_actors) == [i \in DOMAIN new_actors |-> new_actors[i].actor_id]

\* LocalStreamManager::update_actor_info.
UpdateActorInfo ==
    \E req \in InfoRequests :
        Commit(update_actor_info(Core, req), "update_actor_info", req)

\* The topology pushes: up to MaxBatch descriptors, none of them listed twice
\* (two of them may still carry the same actor id), or one hanging channel.
Pushes ==
    {<<a, <<>>>> : a \in {x \in SeqsUpTo(ActorCatalog, MaxBatch) :
                             \A i, j \in DOMAIN x : i # j => x[i] # x[j]}}
        \cup {<<<<>>, <<h>>>> : h \in HangingCatalog}

\* LocalStreamManager::update_actors.
UpdateActors ==
    \E push \in Pushes :
        \E order \in Orders(DOMAIN actors \cup Range(ActorIdsOf(push[1]))) :
            Commit(update_actors(Core, push[1], push[2], order),
                   "update_actors", ActorIdsOf(push[1]))

\* LocalStreamManager::build_actors.
BuildActors ==
    \E ids \in IdLists :
        Commit(build_actors(Core, ids), "build_actors", ids)

\* LocalStreamManager::drop_actor.
DropActor ==
    \E ids \in IdLists :
        Commit(drop_actor(Core, ids), "drop_actor", ids)

\* LocalStreamManager::take_receiver.
TakeReceiver ==
    \E ids \in ActorIds \X ActorIds :
        Commit(take_receiver(Core, ids), "take_receiver", ids)

Next ==
    \/ UpdateActorInfo
    \/ UpdateActors
    \/ BuildActors
    \/ DropActor
    \/ TakeReceiver

\* The control plane of one worker.
Spec == Init /\ [][Next]_vars

\* The barrier protocol and the data path of the running graph.
SpecFlow == Init /\ [][NextFlow]_vars

\* ------------------------------------------- barrier calls and stop_all_actors

\* Epoch.prev of the barrier of epoch e.
prev_epoch(e) == e - 1

\* CollectResult as the barrier manager hands it over: nothing synced.
CollectResult == [synced_sstables |-> {}]

\* StateStore::get_uncommitted_ssts(epoch): the artifacts the sync of that
\* epoch persisted.
get_uncommitted_ssts(epoch) == {epoch}

\* send_and_collect_barrier with the two guards of send_barrier alive in its
\* own body, across the await.
sac_begin_holding_locks(bm, barrier, to_send, to_collect, need_sync, caller) ==
    LET res == send_barrier(bm, barrier, to_send, to_collect)
    IN [bm |-> res.bm,
        call |-> [pc |-> IF res.r = "ok" THEN "await" ELSE "panic",
                  caller |-> caller, need_sync |-> need_sync, barrier |-> barrier,
                  collect_from |-> to_collect, syncs |-> 0, failed |-> FALSE,
                  result |-> CollectResult,
                  held |-> IF res.r = "ok" THEN {"core", "barrier_manager"} ELSE {}]]

\* send_and_collect_barrier up to its first await: send_barrier, then wait for
\* the completion handle. The guards of the core and of the barrier manager are
\* locals of send_barrier and are gone when it returns the handle.
sac_begin(bm, barrier, to_send, to_collect, need_sync, caller) ==
    LET res == send_barrier(bm, barrier, to_send, to_collect)
    IN [bm |-> res.bm,
        call |-> [pc |-> IF res.r = "ok" THEN "await" ELSE "panic",
                  caller |-> caller, need_sync |-> need_sync, barrier |-> barrier,
                  collect_from |-> to_collect, syncs |-> 0, failed |-> FALSE,
                  result |-> CollectResult, held |-> {}]]

\* rx.await: the completion handle of the call's barrier has resolved.
sac_resolved(bm, call) ==
    /\ call.barrier.epoch \in DOMAIN bm.pending
    /\ bm.pending[call.barrier.epoch].resolved

\* The call resuming on a completion handle that has not resolved.
sac_collected_before_resolved(bm, call) ==
    [call EXCEPT !.pc = IF call.need_sync THEN "sync" ELSE "done"]

\* send_and_collect_barrier after rx.await: with need_sync the state store is
\* synced next, otherwise the collect result is returned.
sac_collected(bm, call) ==
    IF ~sac_resolved(bm, call) THEN call
    ELSE [call EXCEPT !.pc = IF call.need_sync THEN "sync" ELSE "done"]

\* The sync arm returning the collect result although the sync failed.
sac_sync_error_returned(call, outcome) ==
    [call EXCEPT !.syncs = @ + 1,
                 !.failed = outcome # "ok",
                 !.result.synced_sstables =
                     IF outcome = "ok" THEN get_uncommitted_ssts(prev_epoch(call.barrier.epoch))
                     ELSE @,
                 !.pc = "done"]

\* store.sync(Some(barrier.epoch.prev)).await and its match: Ok puts the
\* uncommitted artifacts of the previous epoch into the result, which is
\* returned; Err is a panic.
sac_sync(call, outcome) ==
    IF outcome = "ok"
    THEN [call EXCEPT !.syncs = @ + 1,
                      !.result.synced_sstables =
                          get_uncommitted_ssts(prev_epoch(call.barrier.epoch)),
                      !.pc = "done"]
    ELSE [call EXCEPT !.syncs = @ + 1, !.failed = TRUE, !.pc = "panic"]

\* stop_all_actors, first block: the senders and the directory keys.
stop_targets(c, bm) == [to_send |-> all_senders(bm), to_collect |-> DOMAIN c.actor_infos]

\* stop_all_actors returning early on either set being empty only when both are.
stop_is_noop_both_empty(to_send, to_collect) == to_send = {} /\ to_collect = {}

\* stop_all_actors: nothing to send or nothing to collect.
stop_is_noop(to_send, to_collect) == to_send = {} \/ to_collect = {}

\* The barrier of stop_all_actors: Mutation::Stop(actor_ids_to_collect).
stop_barrier(epoch, to_collect) == Barrier(epoch, StopMutation(to_collect))

\* stop_all_actors dropping the actors without the collection having returned.
stop_may_drop_uncollected(call) == call.pc \in {"await", "done"}

\* stop_all_actors goes on to drop_all_actors when send_and_collect_barrier
\* has returned Ok.
stop_may_drop(call) == call.pc = "done"

\* The graph 1 -> 3 <- 2 as the coordinator pushes it, and an actor 4 downstream
\* of 3 that is registered ahead of a later build.
SourceActor(a) ==
    StreamActor(a, Node("Source", <<>>, <<>>), <<Dispatcher("Simple", <<FlowMerge>>)>>, <<>>)

MergeActor == StreamActor(FlowMerge, MergeNode(FlowUpstreams), <<>>, FlowUpstreams)

StandbyId == 4

Standby == StreamActor(StandbyId, MergeNode(<<FlowMerge>>), <<>>, <<FlowMerge>>)

FlowInfo == <<ActorInfo(1, LocalAddr), ActorInfo(2, LocalAddr), ActorInfo(FlowMerge, LocalAddr)>>

StopPushes == {<<SourceActor(1), SourceActor(2), MergeActor>>, <<Standby>>}

StopBuildLists == {<<1, 2, FlowMerge>>, <<1, FlowMerge>>}

\* update_actor_info with the directory of the graph, once in the lifecycle.
StopBroadcast ==
    /\ "update_actor_info" \notin called
    /\ CommitCore(update_actor_info(Core, FlowInfo), "update_actor_info", FlowInfo)
    /\ called' = called \cup {"update_actor_info"}
    /\ UNCHANGED <<flow_vars, tasks, calls, stop, disp_vars, agg_vars>>

\* update_actors with the descriptors of the graph or of the standby actor,
\* neither registered nor built before. No descriptor here has a chain node, so
\* the loop over the pending descriptors cannot fail and what it creates does
\* not depend on the order the hash map yields them in: one order is taken.
StopRegister ==
    \E push \in StopPushes :
        /\ Range(ActorIdsOf(push)) \cap (DOMAIN actors \cup handles \cup dropped) = {}
        /\ LET order == CHOOSE o \in Orders(DOMAIN actors \cup Range(ActorIdsOf(push))) : TRUE
           IN CommitCore(update_actors(Core, push, <<>>, order),
                         "update_actors", ActorIdsOf(push))
        /\ UNCHANGED <<flow_vars, call_vars, disp_vars, agg_vars>>

\* build_actors, once in the lifecycle: the tasks spawned start running and the
\* sources built have their barrier senders registered.
StopBuild ==
    \E ids \in StopBuildLists :
        /\ "build_actors" \notin called
        /\ LET res == build_actors(Core, ids)
           IN /\ CommitCore(res, "build_actors", ids)
              /\ tasks' = [a \in DOMAIN tasks \cup (res.c.handles \ handles) |->
                              IF a \in DOMAIN tasks THEN tasks[a] ELSE "running"]
              /\ barrier_manager' =
                     [barrier_manager EXCEPT !.senders =
                          [a \in DOMAIN @ \cup res.c.registered |->
                              IF a \in DOMAIN @ THEN @[a] ELSE <<>>]]
        /\ called' = called \cup {"build_actors"}
        /\ UNCHANGED <<issued, observed, next_epoch, queue, sent, rcvd, source, merge,
                       calls, stop, disp_vars, agg_vars>>

\* Whether a send_and_collect_barrier call is between its send and its return.
InFlight == {e \in DOMAIN calls : calls[e].pc \in {"await", "sync"}}

\* The coordinator injects a checkpoint barrier: send_and_collect_barrier to
\* all senders, collecting from the actors built on the worker.
SendAndCollect ==
    \E need_sync \in BOOLEAN :
        /\ next_epoch <= MaxEpoch
        /\ InFlight = {}
        /\ {"core", "barrier_manager"} \cap LocksHeld = {}
        /\ handles # {}
        /\ all_senders(barrier_manager) # {}
        /\ LET b == sac_begin(barrier_manager, Barrier(next_epoch, NoMutation),
                              all_senders(barrier_manager), handles, need_sync, "coordinator")
           IN /\ barrier_manager' = b.bm
              /\ calls' = Put(calls, next_epoch, b.call)
        /\ issued' = Put(issued, next_epoch,
                         [send_to |-> all_senders(barrier_manager), collect_from |-> handles])
        /\ next_epoch' = next_epoch + 1
        /\ UNCHANGED <<observed, queue, sent, rcvd, source, merge, ctl_vars, tasks, stop,
                       called, disp_vars, agg_vars>>

\* A call waiting for its completion handle resumes.
CallCollected ==
    \E e \in DOMAIN calls :
        /\ calls[e].pc = "await"
        /\ sac_collected(barrier_manager, calls[e]) # calls[e]
        /\ calls' = [calls EXCEPT ![e] = sac_collected(barrier_manager, calls[e])]
        /\ UNCHANGED <<ctl_vars, flow_vars, tasks, stop, called, disp_vars, agg_vars>>

\* The state store answers the sync of a call.
CallSync ==
    \E e \in DOMAIN calls, outcome \in {"ok", "err"} :
        /\ calls[e].pc = "sync"
        /\ calls' = [calls EXCEPT ![e] = sac_sync(calls[e], outcome)]
        /\ UNCHANGED <<ctl_vars, flow_vars, tasks, stop, called, disp_vars, agg_vars>>

\* stop_all_actors, first block: read the sets; return Ok when there is nothing
\* to send or to collect.
StopRead ==
    /\ stop.pc = "idle"
    /\ LET t == stop_targets(Core, barrier_manager)
       IN IF stop_is_noop(t.to_send, t.to_collect)
          THEN /\ CommitCore(R(Core, "ok"), "stop_all_actors", <<>>)
               /\ UNCHANGED stop
          ELSE /\ {"core", "barrier_manager"} \cap LocksHeld = {}
               /\ stop' = [pc |-> "read", to_send |-> t.to_send,
                           to_collect |-> t.to_collect, epoch |-> 0, held |-> {}]
               /\ UNCHANGED ctl_vars
    /\ UNCHANGED <<flow_vars, tasks, calls, called, disp_vars, agg_vars>>

\* stop_all_actors: the Stop barrier goes out through send_and_collect_barrier.
StopSend ==
    /\ stop.pc = "read"
    /\ next_epoch <= MaxEpoch
    /\ InFlight = {}
    /\ {"core", "barrier_manager"} \cap LocksHeld = {}
    /\ LET b == sac_begin(barrier_manager, stop_barrier(next_epoch, stop.to_collect),
                          stop.to_send, stop.to_collect, FALSE, "stop_all_actors")
       IN /\ barrier_manager' = b.bm
          /\ calls' = Put(calls, next_epoch, b.call)
    /\ issued' = Put(issued, next_epoch,
                     [send_to |-> stop.to_send, collect_from |-> stop.to_collect])
    /\ stop' = [stop EXCEPT !.pc = "awaiting", !.epoch = next_epoch]
    /\ next_epoch' = next_epoch + 1
    /\ UNCHANGED <<observed, queue, sent, rcvd, source, merge, ctl_vars, tasks, called, disp_vars, agg_vars>>

\* stop_all_actors after send_and_collect_barrier: drop_all_actors under the
\* lock, then Ok; the handles dropped take their tasks with them.
StopDrop ==
    /\ stop.pc = "awaiting"
    /\ stop_may_drop(calls[stop.epoch])
    /\ LET res == drop_all_actors(Core)
       IN /\ CommitCore(res, "stop_all_actors", <<>>)
          /\ tasks' = [a \in DOMAIN tasks \ res.c.aborted |-> tasks[a]]
    /\ stop' = [stop EXCEPT !.pc = "idle"]
    /\ UNCHANGED <<flow_vars, calls, called, disp_vars, agg_vars>>

NextStop ==
    \/ StopBroadcast
    \/ StopRegister
    \/ StopBuild
    \/ SendAndCollect
    \/ CallCollected
    \/ CallSync
    \/ StopRead
    \/ StopSend
    \/ StopDrop
    \/ SourceChunk
    \/ SourceBarrier
    \/ MergeReceive

\* A worker from its construction through one lifecycle of the graph.
StopInit == CtlInit /\ FlowState({}, {}) /\ CallInit /\ DispInit /\ AggInit

SpecStop == StopInit /\ [][NextStop]_vars

\* build_actors for the standby actor, called while stop_all_actors is between
\* reading its sets and dropping the actors: the core lock is free there.
LateBuild ==
    /\ stop.pc \in {"read", "awaiting"}
    /\ StandbyId \in DOMAIN actors
    /\ LET res == build_actors(Core, <<StandbyId>>)
       IN /\ CommitCore(res, "build_actors", <<StandbyId>>)
          /\ tasks' = [a \in DOMAIN tasks \cup (res.c.handles \ handles) |->
                          IF a \in DOMAIN tasks THEN tasks[a] ELSE "running"]
    /\ UNCHANGED <<flow_vars, calls, stop, called, disp_vars, agg_vars>>

NextRace ==
    \/ StopBroadcast
    \/ StopRegister
    \/ StopBuild
    \/ LateBuild
    \/ SendAndCollect
    \/ CallCollected
    \/ CallSync
    \/ StopRead
    \/ StopSend
    \/ StopDrop
    \/ SourceChunk
    \/ SourceBarrier
    \/ MergeReceive

\* One lifecycle of the graph with control calls arriving during stop_all_actors.
SpecRace == StopInit /\ [][NextRace]_vars

\* ----------------------------------------------------------- the dispatchers

\* Longest chunk the dispatching actor emits.
MaxRows == 3

\* The dispatching actor, a source, and the actors downstream of it.
DispActor == 1

DispDowns == <<2, 3>>

\* Rows of two columns: column 0 an integer, column 1 a letter.
DispRows == {<<1, "a">>, <<2, "b">>, <<3, "c">>, <<1, "b">>}

\* The chunks the actor emits: up to MaxRows rows, no row twice.
DispChunks ==
    {chunk \in SeqsUpTo(DispRows, MaxRows) :
         /\ chunk # <<>>
         /\ \A i, j \in DOMAIN chunk : i # j => chunk[i] # chunk[j]}

\* Virtual node v to DispDowns[1] for even v and to DispDowns[2] for odd v.
EvenOdd == ActorMapping(<<0, 1, 2, 3>>, <<DispDowns[1], DispDowns[2], DispDowns[1], DispDowns[2]>>)

\* Virtual nodes 0, 1 to DispDowns[1] and 2, 3 to DispDowns[2], in two runs.
Halves == ActorMapping(<<1, 3>>, <<DispDowns[1], DispDowns[2]>>)

\* Every virtual node to DispDowns[1], in one run.
AllFirst == ActorMapping(<<3>>, <<DispDowns[1]>>)

DownLists == {<<>>, SubSeq(DispDowns, 1, 1), DispDowns}

\* The dispatcher lists of the descriptors the dispatching actor is built from.
DispatchCatalog ==
    {<<Dispatcher(type, downs)>> :
         type \in {"Simple", "NoShuffle", "Broadcast"}, downs \in DownLists}
    \cup {<<HashDispatcher(DispDowns, <<0>>, m)>> : m \in {EvenOdd, Halves}}
    \cup {<<HashDispatcher(DispDowns, <<0, 1>>, EvenOdd)>>,
          <<HashDispatcher(SubSeq(DispDowns, 1, 1), <<0>>, AllFirst)>>,
          <<HashDispatcher(<<>>, <<0>>, AllFirst)>>,
          <<Dispatcher("Simple", SubSeq(DispDowns, 1, 1)),
            Dispatcher("Broadcast", SubSeq(DispDowns, 2, 2))>>}

DispDescriptor(dispatchers) ==
    StreamActor(DispActor, Node("Source", <<>>, <<>>), dispatchers, <<>>)

\* The fixed hash function, on one value of a column and on the values of the
\* partition columns of a row.
hash_value(column, v) == IF column = 0 THEN v ELSE [a |-> 1, b |-> 2, c |-> 3][v]

RECURSIVE hash_code(_, _)
hash_code(row, column_indices) ==
    IF column_indices = <<>> THEN 0
    ELSE hash_value(Head(column_indices), row[Head(column_indices) + 1])
         + hash_code(row, Tail(column_indices))

\* HashDataDispatcher: the downstream actor of a row, the entry of the mapping
\* at the row's virtual node.
hash_target(impl, row) ==
    impl.hash_mapping[(hash_code(row, impl.column_indices) % Len(impl.hash_mapping)) + 1]

\* dispatch_data of one dispatcher: what each of its outputs is sent for a
\* chunk. Hash: the rows of the output's actor, in the order of the chunk;
\* Broadcast and Simple: the chunk.
dispatch_data(impl, chunk, o) ==
    LET mine(row) == hash_target(impl, row) = o
    IN IF impl.kind = "Hash" THEN SelectSeq(chunk, mine) ELSE chunk

\* dispatch_barrier of one dispatcher: the barrier once to each of its outputs;
\* here the number of times it is sent to the output of actor o.
dispatch_barrier(impl, o) == Cardinality({j \in DOMAIN impl.outputs : impl.outputs[j] = o})

RECURSIVE Copies(_, _)
Copies(x, n) == IF n = 0 THEN <<>> ELSE <<x>> \o Copies(x, n - 1)

RECURSIVE SumOver(_, _)
SumOver(f, S) ==
    IF S = {} THEN 0 ELSE LET x == CHOOSE y \in S : TRUE IN f[x] + SumOver(f, S \ {x})

\* The dispatchers of the DispatchExecutor with an output to actor o.
DispatchersTo(o) == {i \in DOMAIN dispatch : o \in Range(dispatch[i].outputs)}

\* The values of the columns of a dispatcher descriptor in a row.
PartitionKey(d, row) == [k \in DOMAIN d.column_indices |-> row[d.column_indices[k] + 1]]

\* update_actors with one descriptor of the dispatching actor.
DispRegister ==
    \E dispatchers \in DispatchCatalog :
        /\ "update_actors" \notin called
        /\ CommitCore(update_actors(Core, <<DispDescriptor(dispatchers)>>, <<>>, <<DispActor>>),
                      "update_actors", <<DispActor>>)
        /\ called' = called \cup {"update_actors"}
        /\ UNCHANGED <<flow_vars, tasks, calls, stop, disp_vars, agg_vars>>

\* build_actors of the dispatching actor, once in the lifecycle: the task
\* spawned runs the DispatchExecutor create_dispatcher returned.
DispBuild ==
    /\ "build_actors" \notin called
    /\ LET res == build_actors(Core, <<DispActor>>)
           d == IF DispActor \in DOMAIN actors THEN actors[DispActor].dispatcher ELSE <<>>
           spawned == DispActor \in res.c.handles
       IN /\ CommitCore(res, "build_actors", <<DispActor>>)
          /\ tasks' = IF spawned THEN Put(tasks, DispActor, "running") ELSE tasks
          /\ dispatch' = IF spawned THEN dispatcher_impls(d) ELSE dispatch
          /\ wired' = IF spawned THEN d ELSE wired
          /\ outbox' = IF spawned
                       THEN [o \in UNION {Range(d[i].downstream_actor_id) : i \in DOMAIN d} |->
                                [chunk |-> <<>>, barriers |-> <<>>]]
                       ELSE outbox
    /\ called' = called \cup {"build_actors"}
    /\ UNCHANGED <<flow_vars, calls, stop, fed, routes, agg_vars>>

\* The running actor's executor yields a chunk: every dispatcher dispatches it.
DispChunk ==
    \E chunk \in DispChunks :
        /\ DispActor \in DOMAIN tasks
        /\ fed' = [fed EXCEPT !.chunk = chunk]
        /\ outbox' = [o \in DOMAIN outbox |->
                         [outbox[o] EXCEPT !.chunk =
                              IF DispatchersTo(o) = {} THEN <<>>
                              ELSE dispatch_data(dispatch[CHOOSE i \in DispatchersTo(o) : TRUE],
                                                 chunk, o)]]
        /\ routes' = routes \cup
               {<<PartitionKey(wired[i], chunk[k]), hash_target(dispatch[i], chunk[k])>> :
                    i \in {j \in DOMAIN dispatch : dispatch[j].kind = "Hash"},
                    k \in DOMAIN chunk}
        /\ UNCHANGED <<ctl_vars, flow_vars, call_vars, dispatch, wired, agg_vars>>

\* The running actor's executor yields a barrier: every dispatcher dispatches it.
DispBarrier ==
    /\ DispActor \in DOMAIN tasks
    /\ Len(fed.barriers) < MaxEpoch
    /\ LET epoch == Len(fed.barriers) + 1
           times == [o \in DOMAIN outbox |->
                        SumOver([i \in DOMAIN dispatch |-> dispatch_barrier(dispatch[i], o)],
                                DOMAIN dispatch)]
       IN /\ fed' = [fed EXCEPT !.barriers = Append(@, epoch)]
          /\ outbox' = [o \in DOMAIN outbox |->
                           [outbox[o] EXCEPT !.barriers = @ \o Copies(epoch, times[o])]]
    /\ UNCHANGED <<ctl_vars, flow_vars, call_vars, dispatch, wired, routes, agg_vars>>

NextDispatch ==
    \/ StopBroadcast
    \/ DispRegister
    \/ DispBuild
    \/ DispChunk
    \/ DispBarrier

SpecDispatch == StopInit /\ [][NextDispatch]_vars

\* ------------------------------------------------------- topology updates

\* The actor attached through a chain node, and the actors its merge lists.
TopoActor == 2

TopoUpstreams == <<1, 3>>

\* The chain actor over the listed upstreams.
ChainOver(ups) == StreamActor(TopoActor, ChainNode(MergeNode(ups)), <<>>, <<>>)

\* The chain actor with a first child that is no merge node.
ChainNotMerge ==
    StreamActor(TopoActor, ChainNode(Node("BatchPlan", <<>>, <<>>)), <<>>, <<>>)

\* An upstream of the chain actor on this worker, dispatching to it.
TopoSource ==
    StreamActor(TopoUpstreams[2], Node("Source", <<>>, <<>>),
                <<Dispatcher("Simple", <<TopoActor>>)>>, <<>>)

TopoCatalog ==
    {ChainOver(SubSeq(TopoUpstreams, 1, 1)), ChainOver(TopoUpstreams), ChainNotMerge, TopoSource}

\* The hanging channels of a request: every combination of a host-less, a
\* remote and a missing side.
TopoHanging ==
    HangingCatalog \cup {HangingChannel(SomeInfo(1, "remote"), NoInfo),
                         HangingChannel(SomeInfo(1, "none"), NoInfo)}

\* update_actors requests: up to MaxBatch descriptors, none listed twice, or
\* at most one descriptor and one hanging channel.
TopoPushes ==
    {[actors |-> a, hanging |-> <<>>] :
         a \in {x \in SeqsUpTo(TopoCatalog, MaxBatch) :
                    \A i, j \in DOMAIN x : i # j => x[i] # x[j]}}
        \cup {[actors |-> a, hanging |-> <<h>>] :
                  a \in {<<>>, <<ChainOver(TopoUpstreams)>>}, h \in TopoHanging}

\* The directories broadcast: the upstreams of the chain actor known so far.
TopoInfoRequests ==
    {<<>>, <<ActorInfo(TopoActor, LocalAddr)>>}
        \cup {[i \in 1 .. n |-> ActorInfo(TopoUpstreams[i], LocalAddr)] :
                  n \in DOMAIN TopoUpstreams}
        \cup {[i \in 1 .. n + 1 |->
                  IF i <= n THEN ActorInfo(TopoUpstreams[i], LocalAddr)
                  ELSE ActorInfo(TopoActor, LocalAddr)] : n \in DOMAIN TopoUpstreams}

\* LocalStreamManager::update_actor_info, once in the lifecycle.
TopoInfo ==
    \E req \in TopoInfoRequests :
        /\ "update_actor_info" \notin called
        /\ CommitCore(update_actor_info(Core, req), "update_actor_info", req)
        /\ called' = called \cup {"update_actor_info"}
        /\ UNCHANGED <<flow_vars, tasks, calls, stop, disp_vars, agg_vars>>

\* LocalStreamManager::update_actors.
TopoUpdate ==
    \E push \in TopoPushes :
        \E order \in Orders(DOMAIN actors \cup Range(ActorIdsOf(push.actors))) :
            Commit(update_actors(Core, push.actors, push.hanging, order),
                   "update_actors", push)

\* LocalStreamManager::build_actors of one actor, once in the lifecycle.
TopoBuild ==
    \E id \in {TopoActor, TopoUpstreams[2]} :
        /\ "build_actors" \notin called
        /\ CommitCore(build_actors(Core, <<id>>), "build_actors", <<id>>)
        /\ called' = called \cup {"build_actors"}
        /\ UNCHANGED <<flow_vars, tasks, calls, stop, disp_vars, agg_vars>>

NextTopo ==
    \/ TopoInfo
    \/ TopoUpdate
    \/ TopoBuild

SpecTopo == StopInit /\ [][NextTopo]_vars

\* ------------------------------------------------------ drops and waits

\* The actor lists of drop_actor and wait_actors requests.
DropIdLists == SeqsUpTo(FlowActors \cup {StandbyId}, MaxBatch) \ {<<>>}

\* LocalStreamManager::wait_actors: the handles are taken out of the table
\* under the lock and awaited.
WaitActors ==
    \E ids \in DropIdLists :
        Commit(remove_actor_handles(Core, ids), "wait_actors", ids)

\* LocalStreamManager::drop_actor on the actors of the graph.
DropActors ==
    \E ids \in DropIdLists :
        Commit(drop_actor(Core, ids), "drop_actor", ids)

\* The actor lists of build_actors requests.
BuildIdLists == SeqsUpTo(FlowActors, MaxBatch) \ {<<>>}

\* LocalStreamManager::build_actors on the actors of the graph.
BuildList ==
    \E ids \in BuildIdLists :
        Commit(build_actors(Core, ids), "build_actors", ids)

\* LocalStreamManager::take_receiver on an edge of the graph.
TakeEdge ==
    \E ids \in FlowChannels :
        Commit(take_receiver(Core, ids), "take_receiver", ids)

NextDrop ==
    \/ StopBroadcast
    \/ StopRegister
    \/ StopBuild
    \/ WaitActors
    \/ DropActors

SpecDrop == StopInit /\ [][NextDrop]_vars

NextBuild ==
    \/ StopBroadcast
    \/ StopRegister
    \/ TakeEdge
    \/ BuildList

SpecBuild == StopInit /\ [][NextBuild]_vars

\* -------------------------------------------- keyed aggregation operator

\* Longest group key of a HashAggNode.
MaxKeys == 2

\* The column types of the input schemas.
DataTypes == {"Int16", "Int32", "Int64", "Varchar"}

\* The byte width of a fixed-size type, 0 for a variable-size one.
data_size(t) ==
    CASE t = "Int16" -> 2
      [] t = "Int32" -> 4
      [] t = "Int64" -> 8
      [] OTHER -> 0

RECURSIVE total_data_size(_)
total_data_size(types) ==
    IF types = <<>> THEN 0 ELSE data_size(Head(types)) + total_data_size(Tail(types))

\* The widths of the fixed-size key representations, in bytes.
KeyWidths == {2, 4, 8, 16, 32}

\* calc_hash_key_kind: a serialized key when a type has no fixed size or the
\* sizes add up to more than the widest fixed key, otherwise the narrowest
\* fixed key holding the sum.
calc_hash_key_kind(types) ==
    IF \E i \in DOMAIN types : data_size(types[i]) = 0 THEN "KeySerialized"
    ELSE LET fits == {w \in KeyWidths : total_data_size(types) <= w}
         IN IF fits = {} THEN "KeySerialized"
            ELSE LET w == CHOOSE x \in fits : \A y \in fits : x <= y
                 IN CASE w = 2 -> "Key16"
                      [] w = 4 -> "Key32"
                      [] w = 8 -> "Key64"
                      [] w = 16 -> "Key128"
                      [] OTHER -> "Key256"

\* The schemas of the input executors.
AggSchemas == {<<"Int16", "Int16">>, <<"Int32", "Varchar">>, <<"Int64", "Int64">>}

\* The executor ids of the HashAggNodes of a plan.
ExecutorIds == {1, 2}

NoVnodes == [some |-> FALSE, bitmap |-> {}]

SomeVnodes(bitmap) == [some |-> TRUE, bitmap |-> bitmap]

\* ExecutorParams and the node the builder is handed: the node body, its group
\* key, whether its aggregate calls convert, the input executors (by schema),
\* the vnode bitmap of the actor, and whether HashAggExecutor::new succeeds.
AggNode(executor_id, group_key, schema) ==
    [executor_id |-> executor_id, body |-> "HashAgg", group_key |-> group_key,
     agg_calls |-> "ok", input |-> <<schema>>, vnode_bitmap |-> SomeVnodes({0, 1}),
     executor_new |-> "ok"]

\* The group keys: columns of the schema, or one column past it.
AggGroupKeys == (SeqsUpTo({1, 2}, MaxKeys) \ {<<>>}) \cup {<<3>>}

AggGood == {AggNode(id, k, sc) : id \in ExecutorIds, k \in AggGroupKeys, sc \in AggSchemas}

\* The nodes keyed by their first column.
AggPlain == {p \in AggGood : p.group_key = <<1>>}

\* A well-formed node, and a plainly keyed node with one thing wrong: another
\* body, an aggregate call that does not convert, no input, two inputs, no
\* vnode bitmap, two inputs and no bitmap, a failing executor constructor.
AggParams ==
    AggGood \cup
    UNION {{[p EXCEPT !.body = "Project"],
            [p EXCEPT !.agg_calls = "err"],
            [p EXCEPT !.input = <<>>],
            [p EXCEPT !.input = <<p.input[1], <<"Int16", "Int16">>>>],
            [p EXCEPT !.vnode_bitmap = NoVnodes],
            [p EXCEPT !.input = <<>>, !.vnode_bitmap = NoVnodes],
            [p EXCEPT !.executor_new = "err"]} : p \in AggPlain}

NoExecutor == [K |-> "none"]

\* HashAggExecutorDispatcher::dispatch::<K>: the executor of key type K over
\* the arguments, boxed; an error of HashAggExecutor::new is returned.
agg_dispatch(K, args, executor_new) ==
    IF executor_new # "ok" THEN [r |-> "executor_error", executor |-> NoExecutor]
    ELSE [r |-> "ok",
          executor |-> [K |-> K, key_indices |-> args.key_indices, schema |-> args.input,
                        vnodes |-> args.vnodes, chosen |-> 1, chunks |-> 0]]

\* The builder computing the key kind from every column of the input.
new_boxed_executor_all_columns(params) ==
    IF params.body # "HashAgg" THEN [r |-> "not_hash_agg", executor |-> NoExecutor]
    ELSE IF params.agg_calls # "ok" THEN [r |-> "agg_call_error", executor |-> NoExecutor]
    ELSE IF Len(params.input) # 1 THEN [r |-> "panic", executor |-> NoExecutor]
    ELSE LET input == params.input[1]
         IN IF \E i \in DOMAIN params.group_key : params.group_key[i] \notin DOMAIN input
            THEN [r |-> "panic", executor |-> NoExecutor]
            ELSE IF ~params.vnode_bitmap.some THEN [r |-> "panic", executor |-> NoExecutor]
            ELSE agg_dispatch(calc_hash_key_kind(input),
                              [key_indices |-> params.group_key, input |-> input,
                               vnodes |-> params.vnode_bitmap.bitmap],
                              params.executor_new)

\* HashAggExecutorBuilder::new_boxed_executor: the node must be a HashAgg node
\* and its aggregate calls must convert (errors); the inputs must be exactly
\* one and the group key must index its schema (panics); the key kind is
\* computed from the types of the group-key columns; the vnode bitmap must be
\* set (panic); the executor is dispatched by the kind.
new_boxed_executor(params) ==
    IF params.body # "HashAgg" THEN [r |-> "not_hash_agg", executor |-> NoExecutor]
    ELSE IF params.agg_calls # "ok" THEN [r |-> "agg_call_error", executor |-> NoExecutor]
    ELSE IF Len(params.input) # 1 THEN [r |-> "panic", executor |-> NoExecutor]
    ELSE LET input == params.input[1]
             key_indices == params.group_key
         IN IF \E i \in DOMAIN key_indices : key_indices[i] \notin DOMAIN input
            THEN [r |-> "panic", executor |-> NoExecutor]
            ELSE LET keys == [i \in DOMAIN key_indices |-> input[key_indices[i]]]
                     kind == calc_hash_key_kind(keys)
                 IN IF ~params.vnode_bitmap.some THEN [r |-> "panic", executor |-> NoExecutor]
                    ELSE agg_dispatch(kind,
                                      [key_indices |-> key_indices, input |-> input,
                                       vnodes |-> params.vnode_bitmap.bitmap],
                                      params.executor_new)

\* The graph builder reaches a HashAggNode of the plan and builds its executor.
AggBuild ==
    \E params \in AggParams :
        /\ params.executor_id \notin DOMAIN executors
        /\ LET res == new_boxed_executor(params)
           IN /\ agg_last' = [params |-> params, r |-> res.r]
              /\ executors' = IF res.r = "ok" THEN Put(executors, params.executor_id, res.executor)
                              ELSE executors
        /\ UNCHANGED <<ctl_vars, flow_vars, call_vars, disp_vars>>

\* A built executor processes one chunk of its input, keyed as constructed.
AggChunk ==
    \E id \in DOMAIN executors :
        /\ executors[id].chunks < MaxChunk
        /\ executors' = [executors EXCEPT ![id].chunks = @ + 1]
        /\ UNCHANGED <<agg_last, ctl_vars, flow_vars, call_vars, disp_vars>>

NextAgg ==
    \/ AggBuild
    \/ AggChunk

\* The executors of one plan from their construction through their chunks.
SpecAgg == StopInit /\ [][NextAgg]_vars

\* ------------------------------------------------------------ properties

\* The actors that have reported the barrier of epoch E.
Reported(E) == {a \in FlowActors : <<a, E>> \in observed}

\* The epochs whose barrier has arrived at the merging actor from upstream u.
Arrived(u) ==
    {rcvd[<<u, FlowMerge>>][i].epoch :
        i \in {j \in DOMAIN rcvd[<<u, FlowMerge>>] : rcvd[<<u, FlowMerge>>][j].kind = "barrier"}}

ArrivedOnAll(E) == \A i \in DOMAIN FlowUpstreams : E \in Arrived(FlowUpstreams[i])

\* C1: the completion handle of a barrier sent with send_barrier(barrier,
\* send_to, collect_from) is resolved if and only if every actor of collect_from
\* has reported that barrier.
C1_ResolvesIffAllCollected ==
    \A E \in DOMAIN issued :
        barrier_manager.pending[E].resolved <=> issued[E].collect_from \subseteq Reported(E)

\* C1 witness: one barrier is resolved, all three actors having reported it,
\* while a later one, sent to source 1 alone, has been reported by source 1 and
\* is not resolved.
C1_Witness ==
    /\ 1 \in DOMAIN issued /\ 2 \in DOMAIN issued
    /\ issued[1].collect_from = FlowActors
    /\ barrier_manager.pending[1].resolved
    /\ issued[2].send_to = {1} /\ 2 \in issued[2].collect_from
    /\ <<1, 2>> \in observed
    /\ ~barrier_manager.pending[2].resolved

\* C2: the merging actor emits the barrier of epoch E, emits a chunk produced
\* after Barrier(E), or reports E, only when Barrier(E) has arrived on every one
\* of its inputs; it emits each barrier at most once, and has emitted it once it
\* has arrived on every input.
C2_BarrierAlignment ==
    /\ \A i \in DOMAIN merge.emitted :
           merge.emitted[i].epoch > 0 => ArrivedOnAll(merge.emitted[i].epoch)
    /\ \A E \in 1..MaxEpoch :
           /\ <<FlowMerge, E>> \in observed => ArrivedOnAll(E)
           /\ Cardinality({i \in DOMAIN merge.emitted : merge.emitted[i] = BarrierMsg(E)}) <= 1
           /\ ArrivedOnAll(E) => BarrierMsg(E) \in Range(merge.emitted)

\* C2 witness: the merging actor has emitted a barrier that arrived on both
\* inputs, and after it a chunk produced after that barrier, while a barrier of
\* the next epoch waits on one input.
C2_Witness ==
    /\ Len(merge.emitted) >= 2
    /\ merge.emitted[Len(merge.emitted) - 1] = BarrierMsg(1)
    /\ merge.emitted[Len(merge.emitted)].kind = "chunk"
    /\ merge.emitted[Len(merge.emitted)].epoch = 1
    /\ <<FlowMerge, 1>> \in observed
    /\ \E k \in MergeInputs : merge.blocked[k] = 2

\* C3: on every channel the messages received, followed by the messages in
\* flight, are the messages sent, in the order they were sent, and the channel
\* never holds more than its capacity.
C3_ChannelFifo ==
    \A k \in FlowChannels :
        /\ sent[k] = rcvd[k] \o queue[k]
        /\ Len(queue[k]) <= Capacity

\* C3 witness: a chunk, a barrier and a chunk were sent in that order on a
\* channel; the first chunk has been received, the barrier and the second chunk
\* fill the channel, and the sender waits with a further barrier to send.
C3_Witness ==
    \E k \in FlowChannels :
        /\ Len(rcvd[k]) = 1 /\ rcvd[k][1].kind = "chunk"
        /\ Len(queue[k]) = Capacity
        /\ queue[k][1].kind = "barrier" /\ queue[k][2].kind = "chunk"
        /\ ~CanSend(queue[k])
        /\ barrier_manager.senders[k[1]] # <<>>

\* Whether the half t = <<key, "tx" | "rx">> can be taken from the registry.
HalfPresent(t) ==
    /\ t[1] \in DOMAIN channels
    /\ IF t[2] = "tx" THEN channels[t[1]].tx ELSE channels[t[1]].rx

\* C4: once the sender or the receiver of a registered key has been taken, a
\* later take of the same half of that key fails with NotFound: the registry
\* does not hold that half again while the key is not purged.
C4_TakeSucceedsOnce == \A t \in taken : ~HalfPresent(t)

\* C5: no call creates a channel pair for a key that has an entry in the
\* registry.
C5_NoPairRecreated == last.recreated = {}

\* Whether entry e of a broadcast agrees / conflicts with the directory.
Agrees(e) == e.actor_id \in DOMAIN actor_infos /\ actor_infos[e.actor_id] = e.host

Conflicts(e) == e.actor_id \in DOMAIN actor_infos /\ actor_infos[e.actor_id] # e.host

\* C6: update_actor_info with entries that all equal the registered entries
\* succeeds and leaves the directory unchanged; with an entry whose actor id is
\* registered with a different location it returns the conflict error.
C6_UpdateActorInfoIdempotent ==
    [][last'.op = "update_actor_info" =>
          /\ (\A i \in DOMAIN last'.arg : Agrees(last'.arg[i]))
                 => (last'.r = "ok" /\ actor_infos' = actor_infos)
          /\ (\E i \in DOMAIN last'.arg : Conflicts(last'.arg[i]))
                 => last'.r = "actor_info_mismatch"]_vars

\* C6 witness: a broadcast of an entry that was registered with the same
\* location has succeeded.
C6_Witness ==
    /\ last.op = "update_actor_info"
    /\ last.r = "ok"
    /\ last.agreed # {}
    /\ \A i \in DOMAIN last.arg : last.arg[i].actor_id \in last.agreed

\* C7: while an actor id stays in the directory its location never changes,
\* also across an update_actor_info call that fails with a conflict.
C7_LocationNeverOverwritten ==
    [][\A id \in DOMAIN actor_infos \cap DOMAIN actor_infos' :
           actor_infos'[id] = actor_infos[id]]_vars

\* Whether the ids of an update_actors call hold one that is pending already
\* or occurs twice.
HasDuplicate(ids) ==
    \/ \E i \in DOMAIN ids : ids[i] \in DOMAIN actors
    \/ \E i, j \in DOMAIN ids : i # j /\ ids[i] = ids[j]

\* C8: update_actors returns the duplicate-actor error exactly when an actor id
\* of the call has a pending descriptor already or occurs twice in the call.
C8_DuplicateActorError ==
    [][last'.op = "update_actors" =>
          (HasDuplicate(last'.arg) <=> last'.r = "duplicated_actor")]_vars

\* C8 witness: a call listing the same new actor id twice has returned the
\* duplicate-actor error.
C8_Witness ==
    /\ last.op = "update_actors"
    /\ last.r = "duplicated_actor"
    /\ Len(last.arg) = 2
    /\ last.arg[1] = last.arg[2]

\* C9: no build_actors replaces the task handle recorded for an actor id that
\* has not been dropped since it was built.
C9_HandleNeverReplaced == last.replaced = {}

\* C10: an actor id that was dropped and not registered by update_actors since
\* has no descriptor and no handle, and a build_actors call listing it fails and
\* records no handle for it.
C10_BuildAfterDropFails ==
    [][/\ \A id \in dropped' : id \notin handles' /\ id \notin DOMAIN actors'
       /\ last'.op = "build_actors" =>
              \A i \in DOMAIN last'.arg :
                  last'.arg[i] \in dropped =>
                      last'.r # "ok" /\ last'.arg[i] \notin handles']_vars

\* C10 witness: a build_actors call for an actor that was built, then dropped,
\* and not registered again has failed.
C10_Witness ==
    /\ last.op = "build_actors"
    /\ last.r = "panic"
    /\ Len(last.arg) = 1
    /\ last.arg[1] \in dropped
    /\ last.arg[1] \notin handles

\* The keys of the channel registry whose upstream side is id.
ChannelsFrom(id) == {k \in DOMAIN channels : k[1] = id}

\* C11: after drop_actor every actor it dropped has no handle, no location
\* entry and no pending descriptor, its task was aborted and the registry holds
\* no key with it as upstream; a call listing distinct built actors drops them
\* all and succeeds.
C11_DropActorRemovesAll ==
    [][last'.op = "drop_actor" =>
          /\ \A id \in last'.aborted :
                 /\ id \in Range(last'.arg) /\ id \in handles
                 /\ id \notin handles'
                 /\ id \notin DOMAIN actor_infos'
                 /\ id \notin DOMAIN actors'
                 /\ \A k \in DOMAIN channels' : k[1] # id
          /\ last'.r = "ok" => Range(last'.arg) \subseteq last'.aborted
          /\ ( /\ Range(last'.arg) \subseteq handles
               /\ \A i, j \in DOMAIN last'.arg : i # j => last'.arg[i] # last'.arg[j] )
                 => last'.r = "ok"]_vars

\* C11 witness: drop_actor([1]) has dropped actor 1 while its downstream, actor
\* 2, built from the channel (1, 2), keeps its handle.
C11_Witness ==
    /\ last.op = "drop_actor"
    /\ last.arg = <<1>>
    /\ last.r = "ok"
    /\ last.aborted = {1}
    /\ 2 \in handles
    /\ ChannelsFrom(1) = {}
    /\ 1 \notin handles /\ 1 \notin DOMAIN actor_infos /\ 1 \notin DOMAIN actors

\* The step in which stop_all_actors calls drop_all_actors and returns.
StopDrops == stop.pc = "awaiting" /\ stop'.pc = "idle"

\* C12: drop_all_actors leaves no handle, no location entry and no descriptor
\* of any actor the worker knew before the call, built or pending, and no
\* channel key with such an actor as upstream.
C12_DropAllRemovesAll ==
    [][StopDrops =>
          \A id \in handles \cup DOMAIN actors :
              /\ id \notin handles'
              /\ id \notin DOMAIN actor_infos'
              /\ id \notin DOMAIN actors'
              /\ \A k \in DOMAIN channels' : k[1] # id]_vars

\* C13: stop_all_actors with something to send and to collect sends one
\* barrier, whose Stop mutation names the actors of the directory; it drops the
\* actors only once that barrier is resolved, every actor to collect from having
\* reported it; when it returns the handle table is empty and no channel key has
\* one of the dropped actors as upstream.
C13_StopAllActors ==
    [][/\ (stop.pc = "read" /\ stop'.pc = "awaiting") =>
              /\ DOMAIN calls' = DOMAIN calls \cup {stop'.epoch}
              /\ stop'.epoch \notin DOMAIN calls
              /\ calls'[stop'.epoch].barrier.mutation = StopMutation(DOMAIN actor_infos)
              /\ calls'[stop'.epoch].collect_from = DOMAIN actor_infos
       /\ (stop.pc \in {"read", "awaiting"} /\ ~StopDrops) =>
              /\ handles' = handles
              /\ actor_infos' = actor_infos
       /\ StopDrops =>
              /\ barrier_manager.pending[stop.epoch].resolved
              /\ stop.to_collect \subseteq Reported(stop.epoch)
              /\ handles' = {}
              /\ \A k \in DOMAIN channels' : k[1] \notin handles
              /\ last'.r = "ok"]_vars

\* C13 witness: stop_all_actors has returned after the Stop barrier to both
\* sources was reported by the three actors; no handle is left and the channels
\* of the graph are purged.
C13_Witness ==
    /\ last.op = "stop_all_actors"
    /\ last.aborted = FlowActors
    /\ stop.pc = "idle"
    /\ stop.to_send = FlowSources
    /\ FlowActors \subseteq Reported(stop.epoch)
    /\ handles = {}
    /\ DOMAIN channels \cap FlowChannels = {}

\* Whether stop_all_actors, called now, has nothing to send or to collect.
NothingToStop == all_senders(barrier_manager) = {} \/ DOMAIN actor_infos = {}

\* C14: stop_all_actors called with no barrier sender or with an empty
\* directory returns Ok at once: it goes no further, and the barrier manager,
\* the barrier calls, the handle table, the directory, the pending descriptors
\* and the channel registry are as before.
C14_StopNoop ==
    [][(stop.pc = "idle" /\ NothingToStop) =>
          /\ stop' = stop
          /\ (last' # last /\ last'.op = "stop_all_actors") =>
                 /\ last'.r = "ok"
                 /\ UNCHANGED <<handles, actor_infos, actors, channels, barrier_manager,
                                calls, issued, next_epoch, tasks>>]_vars

\* C14 witness: stop_all_actors has returned Ok on a worker with a directory
\* and pending descriptors but no barrier sender; no barrier was ever sent.
C14_Witness ==
    /\ last.op = "stop_all_actors"
    /\ last.r = "ok"
    /\ stop.pc = "idle"
    /\ DOMAIN actor_infos # {}
    /\ DOMAIN actors # {}
    /\ all_senders(barrier_manager) = {}
    /\ calls = EmptyMap
    /\ barrier_manager.pending = EmptyMap

\* Whether actor a has observed and reported a barrier whose Stop mutation
\* names it.
Stopped(a) ==
    \E e \in DOMAIN calls :
        /\ calls[e].barrier.mutation.kind = "stop"
        /\ a \in calls[e].barrier.mutation.actors
        /\ <<a, e>> \in observed

\* C15: an actor's run() has returned exactly when the actor has observed and
\* propagated a barrier whose Stop mutation names it; a task that has returned
\* never runs again and sends nothing more on its outputs; when stop_all_actors
\* returns after the acknowledged barrier, no actor the mutation names has a
\* handle or a task.
C15_StopIsTerminal ==
    [][/\ \A a \in DOMAIN tasks' : (tasks'[a] = "terminated") <=> Stopped(a)'
       /\ \A a \in DOMAIN tasks :
              tasks[a] = "terminated" =>
                  /\ a \in DOMAIN tasks' => tasks'[a] = "terminated"
                  /\ \A k \in FlowChannels : k[1] = a => sent'[k] = sent[k]
       /\ \A a \in FlowActors : (Stopped(a) /\ a \notin DOMAIN tasks) => a \notin DOMAIN tasks'
       /\ StopDrops =>
              \A a \in calls[stop.epoch].barrier.mutation.actors :
                  a \notin handles' /\ a \notin DOMAIN tasks']_vars

\* C15 witness: source 1 has passed the Stop barrier on to the merging actor and
\* returned, after a chunk of its own, while source 2 still runs with the Stop
\* barrier in its input.
C15_Witness ==
    /\ 1 \in DOMAIN tasks /\ tasks[1] = "terminated"
    /\ 2 \in DOMAIN tasks /\ tasks[2] = "running"
    /\ barrier_manager.senders[2] # <<>>
    /\ Head(barrier_manager.senders[2]).mutation.kind = "stop"
    /\ Len(sent[<<1, FlowMerge>>]) >= 2
    /\ sent[<<1, FlowMerge>>][Len(sent[<<1, FlowMerge>>])].mutation.kind = "stop"
    /\ 1 \in handles

\* The sync invocations made so far by the call of the barrier of epoch e.
SyncsOf(cs, e) == IF e \in DOMAIN cs THEN cs[e].syncs ELSE 0

\* C16: a call of send_and_collect_barrier invokes the sync of the state store
\* only with need_sync, only when its barrier is resolved, every actor of
\* collect_from having reported it, and once at most; a call that has returned
\* was resolved and carries, with need_sync, the artifacts of the barrier's
\* previous epoch after one sync, and without need_sync the collect result as
\* collected after no sync.
C16_SyncAfterCollection ==
    [][\A e \in DOMAIN calls' :
          /\ SyncsOf(calls', e) > SyncsOf(calls, e) =>
                 /\ calls'[e].need_sync
                 /\ barrier_manager.pending[e].resolved
                 /\ calls'[e].collect_from \subseteq Reported(e)
                 /\ calls'[e].syncs = 1
          /\ calls'[e].pc = "done" =>
                 /\ barrier_manager'.pending[e].resolved
                 /\ calls'[e].collect_from \subseteq Reported(e)'
                 /\ IF calls'[e].need_sync
                    THEN calls'[e].syncs = 1 /\ calls'[e].result.synced_sstables = {e - 1}
                    ELSE calls'[e].syncs = 0 /\ calls'[e].result.synced_sstables = {}]_vars

\* C16 witness: the call of the first barrier, with need_sync, has returned the
\* artifacts of epoch 0 after one sync, and the call of the second, without,
\* has returned with no sync.
C16_Witness ==
    /\ DOMAIN calls = {1, 2}
    /\ calls[1].need_sync /\ calls[1].pc = "done" /\ calls[1].syncs = 1
    /\ calls[1].result.synced_sstables = {0}
    /\ ~calls[2].need_sync /\ calls[2].pc = "done" /\ calls[2].syncs = 0
    /\ calls[2].caller = "coordinator"

\* C17: a call whose sync failed has made that one sync attempt, has not
\* returned a collect result, and never does anything more.
C17_SyncFailureFatal ==
    [][\A e \in DOMAIN calls' :
          /\ calls'[e].failed => calls'[e].syncs = 1 /\ calls'[e].pc = "panic"
          /\ (e \in DOMAIN calls /\ calls[e].failed) => calls'[e] = calls[e]]_vars

\* C17 witness: the sync after a collected barrier has failed and the call has
\* ended in a panic, while the worker has gone on to the next barrier.
C17_Witness ==
    /\ 1 \in DOMAIN calls
    /\ calls[1].failed /\ calls[1].pc = "panic" /\ calls[1].syncs = 1
    /\ barrier_manager.pending[1].resolved
    /\ 2 \in DOMAIN calls

\* The dispatching actor's task is running.
Dispatching == DispActor \in DOMAIN tasks

\* The downstream actors the descriptors of the running actor configure.
ConfiguredOutputs == UNION {Range(wired[i].downstream_actor_id) : i \in DOMAIN wired}

\* C18: whatever the types of its dispatchers (Hash, Broadcast, Simple,
\* NoShuffle) and whatever rows of the chunks each output was sent, every
\* downstream actor configured for the running actor has received every
\* barrier the actor emitted, each exactly once and in the order emitted.
C18_BarrierToEveryOutput ==
    Dispatching =>
        \A o \in ConfiguredOutputs :
            /\ o \in DOMAIN outbox
            /\ outbox[o].barriers = fed.barriers

\* C18 witness: a Hash dispatcher over two outputs sent every row of the last
\* chunk to the first output and none to the second, and both outputs have
\* received the two barriers emitted.
C18_Witness ==
    /\ Dispatching
    /\ wired = <<HashDispatcher(DispDowns, <<0>>, EvenOdd)>>
    /\ fed.chunk = <<<<2, "b">>>>
    /\ outbox[DispDowns[1]].chunk = fed.chunk
    /\ outbox[DispDowns[2]].chunk = <<>>
    /\ fed.barriers = <<1, 2>>
    /\ outbox[DispDowns[1]].barriers = <<1, 2>>
    /\ outbox[DispDowns[2]].barriers = <<1, 2>>

Count(row, chunk) == Cardinality({k \in DOMAIN chunk : chunk[k] = row})

\* The rows of the last chunk as a Hash dispatcher's outputs received them.
HashRouted(d) ==
    LET outs == Range(d.downstream_actor_id)
        rows_of(o) == Range(outbox[o].chunk)
    IN /\ \A row \in DispRows :
              /\ Count(row, fed.chunk) =
                     SumOver([o \in outs |-> Count(row, outbox[o].chunk)], outs)
              /\ Cardinality({o \in outs : row \in rows_of(o)}) <= 1
       /\ \A o \in outs :
              LET mine(row) == row \in rows_of(o)
              IN outbox[o].chunk = SelectSeq(fed.chunk, mine)

\* The chunk of the scenario and the outputs it is routed to.
ScenarioChunk == <<<<1, "a">>, <<2, "b">>, <<3, "c">>>>

\* C19: for every Hash dispatcher of the running actor, rows with equal values
\* in the partition columns have gone to the same downstream output in every
\* chunk dispatched so far; each row of the last chunk is in exactly one
\* output, as often as in the chunk; every output holds its rows in the order
\* of the chunk; and hashing column 0 over two outputs with even to output 0
\* and odd to output 1 routes [(1,a),(2,b),(3,c)] to [(2,b)] and [(1,a),(3,c)].
C19_HashDispatch ==
    Dispatching =>
        /\ \A p, q \in routes : p[1] = q[1] => p[2] = q[2]
        /\ \A i \in DOMAIN wired : wired[i].type = "Hash" => HashRouted(wired[i])
        /\ (wired = <<HashDispatcher(DispDowns, <<0>>, EvenOdd)>> /\ fed.chunk = ScenarioChunk) =>
               /\ outbox[DispDowns[1]].chunk = <<<<2, "b">>>>
               /\ outbox[DispDowns[2]].chunk = <<<<1, "a">>, <<3, "c">>>>

\* C19 witness: the scenario's chunk has been dispatched by the scenario's
\* dispatcher after a chunk holding key 1 in another row, and key 1 has gone to
\* output 1 both times.
C19_Witness ==
    /\ Dispatching
    /\ wired = <<HashDispatcher(DispDowns, <<0>>, EvenOdd)>>
    /\ fed.chunk = ScenarioChunk
    /\ outbox[DispDowns[1]].chunk = <<<<2, "b">>>>
    /\ outbox[DispDowns[2]].chunk = <<<<1, "a">>, <<3, "c">>>>
    /\ routes = {<<<<1>>, DispDowns[2]>>, <<<<2>>, DispDowns[1]>>, <<<<3>>, DispDowns[2]>>}

\* A descriptor with a Simple or NoShuffle dispatcher that does not list
\* exactly one downstream actor.
MiscountedSimple(actor) ==
    \E i \in DOMAIN actor.dispatcher :
        /\ actor.dispatcher[i].type \in {"Simple", "NoShuffle"}
        /\ Len(actor.dispatcher[i].downstream_actor_id) # 1

\* C20: a build_actors call for an actor whose descriptor has a Simple or
\* NoShuffle dispatcher listing zero or more than one downstream actor does
\* not return Ok, spawns no task for the actor and records no handle for it.
C20_SimpleNeedsOneOutput ==
    [][("build_actors" \notin called /\ "build_actors" \in called'
        /\ DispActor \in DOMAIN actors /\ MiscountedSimple(actors[DispActor])) =>
           /\ last'.op = "build_actors"
           /\ last'.r # "ok"
           /\ DispActor \notin handles'
           /\ DispActor \notin DOMAIN tasks'
           /\ dispatch' = <<>>]_vars

\* C20 witness: the build of an actor with a dispatcher over two downstream
\* actors has taken the senders to both and then panicked, which only the
\* Simple and NoShuffle types do; there is no handle and no task.
C20_Witness ==
    /\ last.op = "build_actors"
    /\ last.arg = <<DispActor>>
    /\ last.r = "panic"
    /\ taken = {<<<<DispActor, DispDowns[1]>>, "tx">>, <<<<DispActor, DispDowns[2]>>, "tx">>}
    /\ handles = {}
    /\ tasks = EmptyMap
    /\ dispatch = <<>>

\* A step of update_actors, whose request is last'.arg.
UpdateStep == last'.op = "update_actors"

IsChain(actor) == actor.nodes.body = "Chain"

MergeFirst(actor) == actor.nodes.input[1].body = "Merge"

\* The upstreams the merge child of a chain actor lists.
ChainUps(actor) == actor.nodes.input[1].upstream_actor_id

\* The first listed upstream of a chain actor the directory does not hold.
FirstAbsent(actor, infos) ==
    LET ups == ChainUps(actor)
        k == CHOOSE i \in DOMAIN ups :
                 /\ ups[i] \notin DOMAIN infos
                 /\ \A j \in 1 .. i - 1 : ups[j] \in DOMAIN infos
    IN ups[k]

\* C21: an update_actors call that got past the insertion of its descriptors
\* fails with the chain-upstream error naming the first absent upstream when a
\* pending chain actor lists an upstream the directory does not hold, fails
\* with the not-a-merge error when the first child of the chain node is no
\* merge node, and otherwise leaves a channel pair (upstream, actor) for every
\* listed upstream; and a build_actors call succeeds for a chain actor only
\* when every listed upstream was in the directory and had its pair.
C21_ChainUpstreamsChecked ==
    [][/\ (UpdateStep /\ last'.r # "duplicated_actor") =>
              \A a \in DOMAIN actors' :
                  IsChain(actors'[a]) =>
                      IF ~MergeFirst(actors'[a])
                      THEN last'.r = "chain_first_input_not_merge"
                      ELSE IF Range(ChainUps(actors'[a])) \subseteq DOMAIN actor_infos
                      THEN /\ last'.r \in {"ok", "hanging_channel"}
                           /\ \A u \in Range(ChainUps(actors'[a])) :
                                  <<u, a>> \in DOMAIN channels'
                      ELSE /\ last'.r = "chain_upstream_not_exists"
                           /\ last'.named = {FirstAbsent(actors'[a], actor_infos)}
       /\ (last'.op = "build_actors" /\ last'.r = "ok") =>
              \A a \in Range(last'.arg) \cap DOMAIN actors :
                  (IsChain(actors[a]) /\ MergeFirst(actors[a])) =>
                      \A u \in Range(ChainUps(actors[a])) :
                          /\ u \in DOMAIN actor_infos
                          /\ <<u, a>> \in DOMAIN channels]_vars

\* C21 witness: the chain actor over upstreams 1 and 3 was pushed with only 1
\* in the directory; the call failed naming 3, after creating the pair of 1.
C21_Witness ==
    /\ last.op = "update_actors"
    /\ last.arg = [actors |-> <<ChainOver(TopoUpstreams)>>, hanging |-> <<>>]
    /\ last.r = "chain_upstream_not_exists"
    /\ last.named = {TopoUpstreams[2]}
    /\ DOMAIN actor_infos = {TopoUpstreams[1]}
    /\ DOMAIN channels = {<<TopoUpstreams[1], TopoActor>>}
    /\ handles = {}

\* Exactly one side of a hanging channel is the host-less, locally known one.
ExactlyOneLocal(h) ==
    /\ h.upstream.some
    /\ h.downstream.some
    /\ (h.upstream.host = "none") # (h.downstream.host = "none")

\* The keys for which a step created a channel pair.
PairsCreated == (DOMAIN channels' \ DOMAIN channels) \cup last'.recreated

\* C22: an update_actors call with a hanging channel, and with no pending chain
\* actor whose own pairs could be taken for the hanging channel's, returns Ok
\* and creates the pair (upstream, downstream) when exactly one side of the
\* hanging channel is host-less, and otherwise fails with the hanging-channel
\* error and creates no pair for it.
C22_HangingExactlyOneLocal ==
    [][(/\ UpdateStep
        /\ last'.arg.hanging # <<>>
        /\ last'.r # "duplicated_actor"
        /\ \A a \in DOMAIN actors' : ~IsChain(actors'[a])) =>
           LET h == last'.arg.hanging[1]
               key == <<h.upstream.actor_id, h.downstream.actor_id>>
           IN IF ExactlyOneLocal(h)
              THEN last'.r = "ok" /\ key \in PairsCreated
              ELSE last'.r = "hanging_channel" /\ key \notin PairsCreated]_vars

\* The descriptors of a request that update_actors inserted before it
\* returned: all of them, or on a duplicate those up to the first duplicate.
RECURSIVE InsertedBefore(_, _)
InsertedBefore(new_actors, pending) ==
    IF new_actors = <<>> THEN {}
    ELSE IF Head(new_actors).actor_id \in pending THEN {Head(new_actors).actor_id}
    ELSE {Head(new_actors).actor_id}
         \cup InsertedBefore(Tail(new_actors), pending \cup {Head(new_actors).actor_id})

\* C24: when update_actors returns an error, the descriptors it inserted
\* before the error are pending, every channel pair the registry held or the
\* call created is still there, and what earlier calls registered is as it
\* was: every directory entry, every handle, and, when the call before was a
\* successful update_actors, every descriptor that call registered.
C24_NoRollback ==
    [][(UpdateStep /\ last'.r # "ok") =>
           /\ InsertedBefore(last'.arg.actors, DOMAIN actors) \subseteq DOMAIN actors'
           /\ DOMAIN channels \cup last'.recreated \subseteq DOMAIN channels'
           /\ (last.op = "update_actors" /\ last.r = "ok") =>
                  \A i \in DOMAIN last.arg.actors :
                      /\ last.arg.actors[i].actor_id \in DOMAIN actors'
                      /\ actors'[last.arg.actors[i].actor_id] = last.arg.actors[i]
           /\ actor_infos' = actor_infos
           /\ handles' = handles]_vars

\* The position in a drop_actor list of the first actor that has no handle
\* when its turn comes, 0 when every listed actor has one.
FirstUnhandled(ids, table) ==
    LET bad == {i \in DOMAIN ids :
                    ids[i] \notin table \/ \E j \in 1 .. i - 1 : ids[j] = ids[i]}
    IN IF bad = {} THEN 0 ELSE CHOOSE i \in bad : \A j \in bad : i <= j

\* C28: a drop_actor call that reaches a listed actor with no handle fails
\* there: the actors listed before it are dropped and those alone, and for the
\* actor without handle, unless the call itself dropped it earlier, every
\* channel key with it as upstream, its location entry and its pending
\* descriptor are as before the call.
C28_DropWithoutHandle ==
    [][(last'.op = "drop_actor" /\ FirstUnhandled(last'.arg, handles) # 0) =>
           LET ids == last'.arg
               k == FirstUnhandled(ids, handles)
               earlier == {ids[j] : j \in 1 .. k - 1}
           IN /\ last'.r = "panic"
              /\ last'.aborted = earlier
              /\ handles' = handles \ earlier
              /\ DOMAIN actor_infos' = DOMAIN actor_infos \ earlier
              /\ DOMAIN actors' = DOMAIN actors \ earlier
              /\ ids[k] \notin earlier =>
                     /\ {key \in DOMAIN channels' : key[1] = ids[k]} = ChannelsFrom(ids[k])
                     /\ ids[k] \in DOMAIN actor_infos =>
                            actor_infos'[ids[k]] = actor_infos[ids[k]]
                     /\ ids[k] \in DOMAIN actors => actors'[ids[k]] = actors[ids[k]]]_vars

\* C28 witness: drop_actor([1, 2]) after the handle of the built actor 2 was
\* taken by wait_actors: actor 1 is dropped, the call failed at actor 2, whose
\* location entry and channel to the merging actor are still there.
C28_Witness ==
    /\ last.op = "drop_actor"
    /\ last.arg = <<1, 2>>
    /\ last.r = "panic"
    /\ last.aborted = {1}
    /\ handles = {FlowMerge}
    /\ 2 \notin dropped /\ 2 \notin DOMAIN actors
    /\ 2 \in DOMAIN actor_infos
    /\ ChannelsFrom(2) = {<<2, FlowMerge>>}
    /\ ChannelsFrom(1) = {}

\* A build_actors call that failed; the actor it failed at is the one listed
\* after those it spawned a task for.
BuildFailed == last'.op = "build_actors" /\ last'.r # "ok"

FailedAt == Len(last'.built) + 1

\* What a failed build_actors call did to the actors before and after the one
\* it failed at, and to that one's descriptor.
BuildInOrder ==
    LET ids == last'.arg
        k == FailedAt
    IN /\ k \in DOMAIN ids
       /\ last'.built = SubSeq(ids, 1, k - 1)
       /\ \A j \in 1 .. k - 1 : ids[j] \in handles'
       /\ ids[k] \notin DOMAIN actors'
       /\ \A j \in k + 1 .. Len(ids) :
              ids[j] \notin {ids[i] : i \in 1 .. k} =>
                  /\ ids[j] \in handles' <=> ids[j] \in handles
                  /\ ids[j] \in DOMAIN actors =>
                         ids[j] \in DOMAIN actors' /\ actors'[ids[j]] = actors[ids[j]]

\* C29 as claimed: when build_actors fails at the k-th listed actor, the
\* actors before it have their handles, actor k has no handle and no pending
\* descriptor, and the actors after it are neither built nor consumed.
C29_BuildStopsAtFailure ==
    [][BuildFailed => (BuildInOrder /\ last'.arg[FailedAt] \notin handles')]_vars

\* C29 amended: when build_actors fails at the k-th listed actor, the actors
\* before it have their handles, the failed round has recorded no handle (a
\* handle actor k has is the one an earlier entry of the list built or the one
\* it had before the call), actor k has no pending descriptor, and the actors
\* after it are neither built nor consumed.
C29_BuildRecordsNoHandleOnFailure ==
    [][BuildFailed =>
           /\ BuildInOrder
           /\ LET ids == last'.arg
                  k == FailedAt
              IN ids[k] \notin {ids[j] : j \in 1 .. k - 1} =>
                     /\ ids[k] \in handles' <=> ids[k] \in handles
                     /\ ids[k] \notin last'.replaced]_vars

\* C29 witness: build_actors([1, 3]) built the source 1 and failed at the
\* merging actor 3, a receiver of which was taken before: 1 has its handle, 3
\* has none and its descriptor is consumed, the unlisted source 2 is pending.
C29_Witness ==
    /\ last.op = "build_actors"
    /\ last.arg = <<1, FlowMerge>>
    /\ last.r \notin {"ok", "panic"}
    /\ last.built = <<1>>
    /\ handles = {1}
    /\ DOMAIN actors = {2}
    /\ <<<<2, FlowMerge>>, "rx">> \in taken

\* The types of the group-key columns of the single input of a node.
GroupKeyTypes(params) ==
    [i \in DOMAIN params.group_key |-> params.input[1][params.group_key[i]]]

\* C25: a keyed-aggregation executor gets its key representation once, at
\* construction, computed from the types of the group-key columns of its single
\* input; processing chunks neither changes nor recomputes it; a construction
\* without exactly one input or without a vnode bitmap fails and builds nothing.
C25_KeyKindChosenOnce ==
    [][/\ agg_last' # agg_last =>
            LET p == agg_last'.params
                id == p.executor_id
            IN /\ (Len(p.input) # 1 \/ ~p.vnode_bitmap.some) => agg_last'.r # "ok"
               /\ agg_last'.r # "ok" => executors' = executors
               /\ agg_last'.r = "ok" =>
                      /\ id \notin DOMAIN executors
                      /\ DOMAIN executors' = DOMAIN executors \cup {id}
                      /\ executors'[id].K = calc_hash_key_kind(GroupKeyTypes(p))
                      /\ executors'[id].chosen = 1
                      /\ executors'[id].chunks = 0
       /\ \A id \in DOMAIN executors :
              /\ id \in DOMAIN executors'
              /\ executors'[id].K = executors[id].K
              /\ executors'[id].chosen = executors[id].chosen
              /\ executors'[id].key_indices = executors[id].key_indices]_vars

\* An executor keyed by only some columns of its input has processed every
\* chunk, and a node with two inputs was refused after it.
C25_Witness ==
    /\ \E id \in DOMAIN executors :
           /\ executors[id].chunks = MaxChunk
           /\ executors[id].K # calc_hash_key_kind(executors[id].schema)
    /\ agg_last.r = "panic"
    /\ Len(agg_last.params.input) = 2

\* C27: the set stop_all_actors waits to collect the Stop barrier from holds
\* only actors with a task on this worker, so that the call returns once every
\* running actor has acknowledged: while the call is between reading its sets
\* and dropping the actors, every actor of the set it collects from has a handle
\* and a task.
C27_CollectsFromTasksOnly ==
    stop.pc \in {"read", "awaiting"} =>
        /\ stop.to_collect \subseteq handles
        /\ stop.to_collect \subseteq DOMAIN tasks

\* C26: every actor whose task handle the final drop_all_actors of
\* stop_all_actors aborts was in the Stop barrier's target set read when the
\* call began and has reported that barrier, also when actors are registered
\* and built while the call waits.
C26_AbortsOnlyStopTargets ==
    [][StopDrops =>
          \A a \in last'.aborted :
              /\ a \in stop.to_collect
              /\ <<a, stop.epoch>> \in observed]_vars

\* C23: a control call suspended at an await holds neither the core lock nor
\* the barrier-manager lock: a send_and_collect_barrier waiting for the
\* collection or for the sync, and a stop_all_actors between reading its sets
\* and dropping the actors, have released both.
C23_NoLockAcrossAwait ==
    /\ \A e \in DOMAIN calls : calls[e].pc \in {"await", "sync"} => calls[e].held = {}
    /\ stop.pc \in {"read", "awaiting"} => stop.held = {}
    /\ (InFlight # {} \/ stop.pc \in {"read", "awaiting"}) => LocksHeld = {}

\* C23 witness: while stop_all_actors waits for its Stop barrier, build_actors
\* has gone through under the core lock and a source has reported the barrier
\* through the barrier manager's.
C23_Witness ==
    /\ stop.pc = "awaiting"
    /\ calls[stop.epoch].pc = "await"
    /\ last.op = "build_actors"
    /\ last.arg = <<StandbyId>>
    /\ StandbyId \in handles
    /\ <<1, stop.epoch>> \in observed

====
